---- MODULE Spec2Model ----
(***************************************************************************)
(* A model of pf_db::query::Builder (framework/core/src/db/query/          *)
(* builder.cc): the query-state accumulator, its binding store and the     *)
(* flattening of the store, together with the part of the grammar that     *)
(* decides where a placeholder is emitted (Grammar::parameter).            *)
(*                                                                         *)
(* Texts the code only compares (operators, bucket names, clause types)    *)
(* are TLA+ strings.  Texts the code or the grammar looks into (column     *)
(* names, searched for "->"; raw SQL, whose "?" marks are placeholders)    *)
(* are sequences of tokens.                                                *)
(***************************************************************************)
EXTENDS Integers, Sequences, FiniteSets, TLC

VARIABLES builder,   \* the Builder object under construction
          prev,      \* the Builder as it was when the last call started
          last,      \* the last call made on the builder (its arguments)
          err,       \* the usage error the last call raised, or NoError
          ncalls,    \* number of calls made so far
          sent,      \* what the last call handed to the connection
          ret,       \* the value the last call returned
          access     \* the handle through which the last call read the
                     \* bindings of the sub-builder it embedded

vars == <<builder, prev, last, err, ncalls, sent, ret, access>>

(***************************************************************************)
(* Bounds of the model.                                                    *)
(***************************************************************************)
MaxCalls == 3

MaxPredicateCalls == 2

(***************************************************************************)
(* variable_t: a tagged scalar, a type tag and the text of the value.      *)
(***************************************************************************)
Value(t, d) == [type |-> t, data |-> d]

kVariableTypeInvalid == "invalid"
kVariableTypeBool == "bool"
kVariableTypeInt32 == "int32"
kVariableTypeString == "string"
DB_EXPRESSION_TYPE == "expression"
DB_EXPRESSION_TYPE_S == "expression_s"

Null == Value(kVariableTypeInvalid, "")
Str(s) == Value(kVariableTypeString, s)
Int32(s) == Value(kVariableTypeInt32, s)
Bool(f) == Value(kVariableTypeBool, IF f THEN "1" ELSE "0")

\* ConnectionInterface::raw, as Builder::raw uses it
raw(s) == Value(DB_EXPRESSION_TYPE, s)

is_expression(v) == v.type \in {DB_EXPRESSION_TYPE, DB_EXPRESSION_TYPE_S}

\* a value is empty when its text is: the text is a string, or the sequence
\* of its characters where the code looks into it
empty(v) == Len(v.data) = 0

\* pf_support::contains(haystack, {needle}) on token sequences
contains(s, needle) ==
  \E i \in 1..(Len(s) - Len(needle) + 1) :
     \A j \in 1..Len(needle) : s[i + j - 1] = needle[j]

Arrow == <<"-", ">">>

NoError == "none"
IllegalOperatorAndValue == "Illegal operator and val combination."

Ok(b) == [builder |-> b, error |-> NoError]
Fail(b, msg) == [builder |-> b, error |-> msg]

(***************************************************************************)
(* The binding store.                                                      *)
(***************************************************************************)
DB_BINDING_KEYS == <<"select", "join", "where", "having", "order", "union">>

BaselineOperators ==
  { "=", "<", ">", "<=", ">=", "<>", "!=", "<=>",
    "like", "like binary", "not like", "between", "ilike",
    "&", "|", "^", "<<", ">>",
    "rlike", "regexp", "not regexp",
    "~", "~*", "!~", "!~*", "similar to",
    "not similar to", "not ilike", "~~*", "!~~*" }

\* Grammar::get_operators of the active grammar
GrammarOperators == {"sounds like"}

Builder ==
  [ bindings_     |-> [k \in {"select", "join", "where", "having", "order", "union"}
                         |-> <<>>],
    operators_    |-> BaselineOperators,
    distinct_     |-> FALSE,
    limit_        |-> -1,
    offset_       |-> -1,
    union_limit_  |-> -1,
    union_offset_ |-> -1,
    lock_         |-> Null,
    aggregate_    |-> <<>>,
    columns_      |-> <<>>,
    from_         |-> "",
    joins_        |-> <<>>,
    wheres_       |-> <<>>,
    groups_       |-> <<>>,
    havings_      |-> <<>>,
    orders_       |-> <<>>,
    union_orders_ |-> <<>>,
    unions_       |-> <<>> ]

new_query == Builder

RECURSIVE FlattenFrom(_, _)
FlattenFrom(bindings, i) ==
  IF i > Len(DB_BINDING_KEYS) THEN <<>>
  ELSE (IF DB_BINDING_KEYS[i] \in DOMAIN bindings
          THEN bindings[DB_BINDING_KEYS[i]] ELSE <<>>)
       \o FlattenFrom(bindings, i + 1)

\* get_bindings walking the store in the order of its keys
get_bindings_in_key_order(b) ==
  b.bindings_["having"] \o b.bindings_["join"] \o b.bindings_["order"]
    \o b.bindings_["select"] \o b.bindings_["union"] \o b.bindings_["where"]

get_bindings(b) ==
  IF DOMAIN b.bindings_ = {} THEN <<>> ELSE FlattenFrom(b.bindings_, 1)

\* The mutators name one of the six buckets, so the 'Invalid binding type'
\* branch of add_bindings and add_binding leaves the store as it is.
add_bindings(b, vals, type) ==
  IF type \notin DOMAIN b.bindings_ THEN b
  ELSE [b EXCEPT !.bindings_[type] = @ \o vals]

add_binding(b, val, type) ==
  IF type \notin DOMAIN b.bindings_ THEN b
  ELSE [b EXCEPT !.bindings_[type] = Append(@, val)]

(***************************************************************************)
(* Operator and value preparation.                                         *)
(***************************************************************************)
invalid_operator_and_value(b, oper, val) ==
  /\ (empty(val) \/ val.data = "")
  /\ oper.data \in b.operators_
  /\ oper.data \notin {"=", "<>", "!="}

\* the pair {val, oper} the source returns, or the usage error it raises
prepare_value_and_operator(b, val, oper, use_default) ==
  IF use_default THEN [val |-> oper, oper |-> Str("="), error |-> NoError]
  ELSE IF invalid_operator_and_value(b, oper, val)
         THEN [val |-> val, oper |-> oper, error |-> IllegalOperatorAndValue]
         ELSE [val |-> val, oper |-> oper, error |-> NoError]

invalid_operator(b, oper) ==
  oper \notin b.operators_ /\ oper \notin GrammarOperators

(***************************************************************************)
(* The where family.                                                       *)
(***************************************************************************)
where_null(b, column, boolean, isnot) ==
  [b EXCEPT !.wheres_ = Append(@,
     [type |-> IF isnot THEN "notnull" ELSE "null",
      column |-> column, boolean |-> boolean])]

\* where_basic without the JSON reference check
where_basic_binding_booleans(b, column, roper, rval, boolean, expression_type) ==
  IF empty(rval) THEN where_null(b, column, boolean, roper.data # "=")
  ELSE add_binding(
         [b EXCEPT !.wheres_ = Append(@,
            [type |-> "basic", column |-> column, operator |-> roper.data,
             value |-> rval, boolean |-> boolean])],
         rval, "where")

\* Builder::where, the part the two overloads share after the operator is
\* settled: the null short-cut, the JSON boolean rewrite, the basic clause
where_basic(b, column, roper, rval, boolean, expression_type) ==
  IF empty(rval) THEN where_null(b, column, boolean, roper.data # "=")
  ELSE
    LET json == contains(column, Arrow) /\ rval.type = kVariableTypeBool
        val2 == IF json
                  THEN Value(expression_type,
                             IF rval = Bool(TRUE) THEN "true" ELSE "false")
                  ELSE rval
        b2   == [b EXCEPT !.wheres_ = Append(@,
                   [type |-> "basic", column |-> column,
                    operator |-> roper.data, value |-> val2,
                    boolean |-> boolean])]
    IN IF ~is_expression(val2) THEN add_binding(b2, val2, "where") ELSE b2

\* where that never takes the operator for the value
where_without_default(b, column, oper, val, boolean) ==
  LET val_oper == prepare_value_and_operator(b, val, oper, FALSE)
  IN IF val_oper.error # NoError THEN Fail(b, val_oper.error)
     ELSE Ok(where_basic(b, column, val_oper.oper, val_oper.val, boolean,
                         DB_EXPRESSION_TYPE))

where(b, column, oper, val, boolean) ==
  LET use_default == (val.data = "") /\ ("and" = boolean)
      val_oper    == prepare_value_and_operator(b, val, oper, use_default)
      inv         == invalid_operator(b, val_oper.oper.data)
      rval        == IF inv THEN val_oper.oper ELSE val_oper.val
      roper       == IF inv THEN Str("=") ELSE val_oper.oper
  IN IF val_oper.error # NoError THEN Fail(b, val_oper.error)
     ELSE Ok(where_basic(b, column, roper, rval, boolean, DB_EXPRESSION_TYPE))

where_column(b, first, oper, second, boolean) ==
  LET inv     == invalid_operator(b, oper)
      rsecond == IF inv THEN oper ELSE second
      roper   == IF inv THEN "=" ELSE oper
  IN [b EXCEPT !.wheres_ = Append(@,
        [type |-> "column", first |-> first, operator |-> roper,
         second |-> rsecond, boolean |-> boolean])]

where_raw(b, sql, bindings, boolean) ==
  add_bindings(
    [b EXCEPT !.wheres_ = Append(@,
       [type |-> "raw", sql |-> sql, boolean |-> boolean])],
    bindings, "where")

\* std::to_string of a list index: its decimal digits
RECURSIVE to_string(_)
to_string(i) ==
  IF i < 10 THEN <<i>> ELSE to_string(i \div 10) \o <<i % 10>>

\* the order of two keys of a clause's value map: lexicographic, a proper
\* prefix first
RECURSIVE KeyBefore(_, _)
KeyBefore(k1, k2) ==
  IF k1 = <<>> THEN k2 # <<>>
  ELSE IF k2 = <<>> THEN FALSE
  ELSE IF Head(k1) # Head(k2) THEN Head(k1) < Head(k2)
  ELSE KeyBefore(Tail(k1), Tail(k2))

\* the values of a where-in clause: each stored under the key
\* to_string(index), read back in the order of the keys
keyed_values(vals) ==
  LET keys == SortSeq([i \in 1..Len(vals) |-> i - 1],
                      LAMBDA x, y : KeyBefore(to_string(x), to_string(y)))
  IN [k \in 1..Len(vals) |-> vals[keys[k] + 1]]

\* where_in that returns early on an empty list
where_in_skipping_empty(b, column, vals, boolean, isnot) ==
  IF vals = <<>> THEN b
  ELSE add_bindings(
         [b EXCEPT !.wheres_ = Append(@,
            [type |-> IF isnot THEN "notin" ELSE "in", column |-> column,
             boolean |-> boolean, values |-> keyed_values(vals)])],
         SelectSeq(vals, LAMBDA v : ~is_expression(v)), "where")

where_in(b, column, vals, boolean, isnot) ==
  add_bindings(
    [b EXCEPT !.wheres_ = Append(@,
       [type |-> IF isnot THEN "notin" ELSE "in", column |-> column,
        boolean |-> boolean, values |-> keyed_values(vals)])],
    SelectSeq(vals, LAMBDA v : ~is_expression(v)), "where")

where_between(b, column, vals, boolean, isnot) ==
  add_bindings(
    [b EXCEPT !.wheres_ = Append(@,
       [type |-> "between", column |-> column, boolean |-> boolean,
        not |-> isnot])],
    vals, "where")

add_date_based_where(b, type, column, oper, val, boolean) ==
  add_binding(
    [b EXCEPT !.wheres_ = Append(@,
       [type |-> type, column |-> column, operator |-> oper,
        boolean |-> boolean, value |-> val])],
    val, "where")

\* where_date, where_day, where_month, where_year: `part` is the clause type
where_date(b, part, column, oper, val, boolean) ==
  LET use_default == (val.data = "") /\ ("and" = boolean)
      val_oper    == prepare_value_and_operator(b, val, Str(oper), use_default)
  IN IF val_oper.error # NoError THEN Fail(b, val_oper.error)
     ELSE Ok(add_date_based_where(b, part, column, val_oper.oper.data,
                                  val_oper.val, boolean))

(***************************************************************************)
(* Calls.  A callback handed to a mutator is the sequence of calls it      *)
(* makes on the sub-builder it receives; it runs to its end inside the     *)
(* mutator.                                                                *)
(***************************************************************************)
NoCall ==
  [op |-> "none", table |-> <<>>, column |-> <<>>, oper |-> Null,
   val |-> Null, boolean |-> "and", vals |-> <<>>, sql |-> <<>>,
   flag |-> FALSE, n |-> 0, type |-> "", cb |-> <<>>]

select(b, columns) == [b EXCEPT !.columns_ = columns]

\* the calls a callback makes on its sub-builder
ApplySimple(b, c) ==
  CASE c.op = "select"    -> Ok(select(b, c.vals))
    [] c.op = "where"     -> where(b, c.column, c.oper, c.val, c.boolean)
    [] c.op = "where_raw" -> Ok(where_raw(b, c.sql, c.vals, c.boolean))
    [] c.op = "where_column"
         -> Ok(where_column(b, c.column, c.oper.data, c.val.data, c.boolean))
    [] OTHER              -> Ok(b)

RECURSIVE RunCallback(_, _)
RunCallback(q, cb) ==
  IF cb = <<>> THEN Ok(q)
  ELSE LET r == ApplySimple(q, Head(cb))
       IN IF r.error # NoError THEN r ELSE RunCallback(r.builder, Tail(cb))

where_sub(b, column, oper, callback, boolean) ==
  LET r == RunCallback(new_query, callback)
  IN IF r.error # NoError THEN Fail(b, r.error)
     ELSE Ok(add_bindings(
            [b EXCEPT !.wheres_ = Append(@,
               [type |-> "sub", column |-> column, operator |-> oper,
                boolean |-> boolean, query |-> r.builder])],
            get_bindings(r.builder), "where"))

\* Builder::where, the overload whose value is a closure
where_closure(b, column, oper, val, boolean) ==
  LET use_default == (oper.data = "") /\ ("and" = boolean)
      val_oper    == prepare_value_and_operator(b, Str("closure_t"), oper,
                                                use_default)
      inv         == invalid_operator(b, val_oper.oper.data)
      rval        == IF inv THEN val_oper.oper ELSE val_oper.val
      roper       == IF inv THEN Str("=") ELSE val_oper.oper
  IN IF val_oper.error # NoError THEN Fail(b, val_oper.error)
     ELSE IF rval.data = "closure_t"
       THEN where_sub(b, column, oper.data, val, boolean)
       ELSE Ok(where_basic(b, column, roper, rval, boolean,
                           DB_EXPRESSION_TYPE_S))

where_insub(b, column, callback, boolean, isnot) ==
  LET r == RunCallback(new_query, callback)
  IN IF r.error # NoError THEN Fail(b, r.error)
     ELSE Ok([add_bindings(b, get_bindings(r.builder), "where")
               EXCEPT !.wheres_ = Append(@,
                 [type |-> IF isnot THEN "not_insub" ELSE "insub",
                  column |-> column, boolean |-> boolean,
                  query |-> r.builder])])

NullDereference == "null pointer dereference"

\* What line 704 can do.  The local _where was moved into wheres_ on line
\* 703, so its query handle is a moved-from unique_ptr and reading the
\* bindings through it is undefined: the call traps, or it reads a sequence
\* that is not the sub-builder's (the empty one), or it reads the
\* sub-builder's bindings as if the handle still owned it.
UseAfterMoveOutcomes == {"trap", "reads_nothing", "reads_as_if_owned"}

add_where_exists_query(b, query, boolean, isnot, outcome) ==
  LET b2 == [b EXCEPT !.wheres_ = Append(@,
               [type |-> IF isnot THEN "notexists" ELSE "exists",
                boolean |-> boolean, query |-> query])]
  IN CASE outcome = "trap" -> Fail(b2, NullDereference)
       [] outcome = "reads_nothing" -> Ok(add_bindings(b2, <<>>, "where"))
       [] OTHER -> Ok(add_bindings(b2, get_bindings(query), "where"))

where_exists(b, callback, boolean, isnot, outcome) ==
  LET r == RunCallback(new_query, callback)
  IN IF r.error # NoError THEN Fail(b, r.error)
     ELSE add_where_exists_query(b, r.builder, boolean, isnot, outcome)

(***************************************************************************)
(* Group, having, order, limit, offset.                                    *)
(***************************************************************************)
group_by(b, groups) == [b EXCEPT !.groups_ = @ \o groups]

\* having that binds its value whether or not it is raw
having_binding_expressions(b, column, oper, val, boolean) ==
  LET use_default == (val.data = "") /\ ("and" = boolean)
      val_oper    == prepare_value_and_operator(b, val, oper, use_default)
      inv         == invalid_operator(b, val_oper.oper.data)
      rval        == IF inv THEN val_oper.oper ELSE val_oper.val
      roper       == IF inv THEN Str("=") ELSE val_oper.oper
      b2          == [b EXCEPT !.havings_ = Append(@,
                        [type |-> "basic", column |-> column,
                         operator |-> roper.data, value |-> rval,
                         boolean |-> boolean])]
  IN IF val_oper.error # NoError THEN Fail(b, val_oper.error)
     ELSE Ok(add_binding(b2, rval, "having"))

having(b, column, oper, val, boolean) ==
  LET use_default == (val.data = "") /\ ("and" = boolean)
      val_oper    == prepare_value_and_operator(b, val, oper, use_default)
      inv         == invalid_operator(b, val_oper.oper.data)
      rval        == IF inv THEN val_oper.oper ELSE val_oper.val
      roper       == IF inv THEN Str("=") ELSE val_oper.oper
      b2          == [b EXCEPT !.havings_ = Append(@,
                        [type |-> "basic", column |-> column,
                         operator |-> roper.data, value |-> rval,
                         boolean |-> boolean])]
  IN IF val_oper.error # NoError THEN Fail(b, val_oper.error)
     ELSE Ok(IF ~is_expression(rval) THEN add_binding(b2, rval, "having")
             ELSE b2)

having_raw(b, sql, bindings, boolean) ==
  LET b2 == [b EXCEPT !.havings_ = Append(@,
               [type |-> "raw", sql |-> sql, boolean |-> boolean])]
  IN IF bindings # <<>> THEN add_bindings(b2, bindings, "having") ELSE b2

\* order_by that does not look at the unions
order_by_base_only(b, column, direction) ==
  [b EXCEPT !.orders_ = Append(@,
     [column |-> column,
      direction |-> IF "asc" = direction THEN "asc" ELSE "desc"])]

\* order_by that stores the direction text as given
order_by_keeping_direction(b, column, direction) ==
  LET order == [column |-> column, direction |-> direction]
  IN IF b.unions_ = <<>>
       THEN [b EXCEPT !.orders_ = Append(@, order)]
       ELSE [b EXCEPT !.union_orders_ = Append(@, order)]

order_by(b, column, direction) ==
  LET order == [column |-> column,
                direction |-> IF "asc" = direction THEN "asc" ELSE "desc"]
  IN IF b.unions_ = <<>>
       THEN [b EXCEPT !.orders_ = Append(@, order)]
       ELSE [b EXCEPT !.union_orders_ = Append(@, order)]

order_byraw(b, sql, bindings) ==
  LET order == [type |-> "raw", sql |-> sql]
  IN add_bindings(
       IF b.unions_ = <<>>
         THEN [b EXCEPT !.orders_ = Append(@, order)]
         ELSE [b EXCEPT !.union_orders_ = Append(@, order)],
       bindings, "order")

max(x, y) == IF x >= y THEN x ELSE y

\* offset that stores its argument as given
offset_unclamped(b, val) ==
  IF b.unions_ = <<>>
    THEN [b EXCEPT !.offset_ = val]
    ELSE [b EXCEPT !.union_offset_ = val]

offset(b, val) ==
  IF b.unions_ = <<>>
    THEN [b EXCEPT !.offset_ = max(0, val)]
    ELSE [b EXCEPT !.union_offset_ = max(0, val)]

limit(b, val) ==
  IF val >= 0
    THEN IF b.unions_ = <<>>
           THEN [b EXCEPT !.limit_ = val]
           ELSE [b EXCEPT !.union_limit_ = val]
    ELSE b

_union(b, callback, all) ==
  LET r == RunCallback(new_query, callback)
  IN IF r.error # NoError THEN Fail(b, r.error)
     ELSE Ok([add_bindings(b, get_bindings(r.builder), "union")
               EXCEPT !.unions_ = Append(@,
                 [all |-> all, query |-> r.builder])])

(***************************************************************************)
(* The grammar: compile_select and what it calls.  A compiled text is a    *)
(* sequence of items: a token of SQL text, or a placeholder together with  *)
(* the clause value it stands for (Unknown for a "?" of a raw text and for *)
(* the two marks of a between clause, whose values the clause does not     *)
(* hold).                                                                  *)
(***************************************************************************)
Unknown == Value("unknown", "?")

Tok(s) == [t |-> "tok", s |-> s, v |-> Unknown]
Mark(v) == [t |-> "mark", s |-> "?", v |-> v]

Toks(ss) == [i \in 1..Len(ss) |-> Tok(ss[i])]

\* a raw text, as written by the caller: each "?" in it is a placeholder
RawItems(sql) ==
  [i \in 1..Len(sql) |-> IF sql[i] = "?" THEN Mark(Unknown) ELSE Tok(sql[i])]

\* Grammar::parameter
parameter(value) ==
  IF is_expression(value) THEN <<Tok(value.data)>> ELSE <<Mark(value)>>

RECURSIVE parameterize(_)
parameterize(values) ==
  IF values = <<>> THEN <<>>
  ELSE parameter(Head(values))
       \o (IF Len(values) > 1 THEN <<Tok(",")>> ELSE <<>>)
       \o parameterize(Tail(values))

\* Grammar::wrap_value on an identifier held as one text
wrap_value(s) == IF s = "*" THEN <<Tok("*")>> ELSE <<Tok("\""), Tok(s), Tok("\"")>>

\* Grammar::wrap on an identifier held as tokens: each dotted segment quoted
RECURSIVE wrap_segments(_, _)
wrap_segments(column, open) ==
  IF column = <<>> THEN (IF open THEN <<Tok("\"")>> ELSE <<>>)
  ELSE IF Head(column) = "."
    THEN (IF open THEN <<Tok("\"")>> ELSE <<>>) \o <<Tok(".")>>
         \o wrap_segments(Tail(column), FALSE)
  ELSE IF Head(column) = "*" /\ ~open
    THEN <<Tok("*")>> \o wrap_segments(Tail(column), FALSE)
  ELSE (IF open THEN <<>> ELSE <<Tok("\"")>>) \o RawItems(<<Head(column)>>)
       \o wrap_segments(Tail(column), TRUE)

wrap(column) == wrap_segments(column, FALSE)

RECURSIVE compile_select(_)
RECURSIVE compile_wheres(_, _, _)
RECURSIVE compile_joins(_)
RECURSIVE compile_unions(_)

compile_where(w) ==
  CASE w.type = "basic"
         -> wrap(w.column) \o <<Tok(w.operator)>> \o parameter(w.value)
    [] w.type = "column"
         -> wrap(w.first) \o <<Tok(w.operator)>> \o wrap_value(w.second)
    [] w.type = "raw" -> RawItems(w.sql)
    [] w.type \in {"in", "notin"}
         -> IF w.values = <<>>
              THEN (IF w.type = "in" THEN Toks(<<"0", "=", "1">>)
                    ELSE Toks(<<"1", "=", "1">>))
              ELSE wrap(w.column)
                   \o (IF w.type = "in" THEN <<Tok("in")>>
                       ELSE Toks(<<"not", "in">>))
                   \o <<Tok("(")>> \o parameterize(w.values) \o <<Tok(")")>>
    [] w.type \in {"insub", "not_insub"}
         -> wrap(w.column)
            \o (IF w.type = "insub" THEN <<Tok("in")>>
                ELSE Toks(<<"not", "in">>))
            \o <<Tok("(")>> \o compile_select(w.query) \o <<Tok(")")>>
    [] w.type \in {"null", "notnull"}
         -> wrap(w.column)
            \o (IF w.type = "null" THEN Toks(<<"is", "null">>)
                ELSE Toks(<<"is", "not", "null">>))
    [] w.type = "between"
         -> wrap(w.column)
            \o (IF w.not THEN <<Tok("not")>> ELSE <<>>)
            \o <<Tok("between"), Mark(Unknown), Tok("and"), Mark(Unknown)>>
    [] w.type \in {"date", "day", "month", "year", "time"}
         -> <<Tok(w.type), Tok("(")>> \o wrap(w.column) \o <<Tok(")")>>
            \o <<Tok(w.operator)>> \o parameter(w.value)
    [] w.type = "sub"
         -> wrap(w.column) \o <<Tok(w.operator)>>
            \o <<Tok("(")>> \o compile_select(w.query) \o <<Tok(")")>>
    [] w.type \in {"exists", "notexists"}
         -> (IF w.type = "exists" THEN <<Tok("exists")>>
             ELSE Toks(<<"not", "exists">>))
            \o <<Tok("(")>> \o compile_select(w.query) \o <<Tok(")")>>
    [] w.type = "nested"
         -> <<Tok("(")>> \o Tail(compile_wheres(w.query.wheres_, "where", 1))
            \o <<Tok(")")>>
    [] OTHER -> <<>>

\* a where or having list: the first clause's connector is replaced by `lead`
compile_wheres(wheres, lead, i) ==
  IF i > Len(wheres) THEN <<>>
  ELSE <<Tok(IF i = 1 THEN lead ELSE wheres[i].boolean)>>
       \o compile_where(wheres[i])
       \o compile_wheres(wheres, lead, i + 1)

compile_joins(joins) ==
  IF joins = <<>> THEN <<>>
  ELSE LET j == Head(joins)
       IN <<Tok(j.type), Tok("join")>> \o wrap_value(j.table)
          \o compile_wheres(j.query.wheres_, "on", 1)
          \o compile_joins(Tail(joins))

compile_columns(b) ==
  IF b.aggregate_ # <<>>
    THEN <<Tok("select"), Tok(b.aggregate_.function), Tok("(")>>
         \o Toks(b.aggregate_.columns)
         \o Toks(<<")", "as", "aggregate">>)
  ELSE <<Tok(IF b.distinct_ THEN "select distinct" ELSE "select")>>
       \o (IF b.columns_ = <<>> THEN <<Tok("*")>>
           ELSE LET cols[i \in 0..Len(b.columns_)] ==
                      IF i = 0 THEN <<>>
                      ELSE cols[i - 1]
                           \o (IF i > 1 THEN <<Tok(",")>> ELSE <<>>)
                           \o (IF is_expression(b.columns_[i])
                                 THEN RawItems(b.columns_[i].data)
                                 ELSE wrap(b.columns_[i].data))
                IN cols[Len(b.columns_)])

compile_orders(orders) ==
  IF orders = <<>> THEN <<>>
  ELSE LET os[i \in 0..Len(orders)] ==
             IF i = 0 THEN <<Tok("order by")>>
             ELSE os[i - 1]
                  \o (IF i > 1 THEN <<Tok(",")>> ELSE <<>>)
                  \o (IF "sql" \in DOMAIN orders[i]
                        THEN RawItems(orders[i].sql)
                        ELSE wrap(orders[i].column)
                             \o <<Tok(orders[i].direction)>>)
       IN os[Len(orders)]

compile_limit(n) == IF n >= 0 THEN <<Tok("limit"), Tok("n")>> ELSE <<>>
compile_offset(n) == IF n >= 0 THEN <<Tok("offset"), Tok("n")>> ELSE <<>>

compile_unions(unions) ==
  IF unions = <<>> THEN <<>>
  ELSE <<Tok(IF Head(unions).all THEN "union all" ELSE "union"), Tok("(")>>
       \o compile_select(Head(unions).query) \o <<Tok(")")>>
       \o compile_unions(Tail(unions))

compile_select(b) ==
  compile_columns(b)
  \o (IF b.from_ = "" THEN <<>> ELSE <<Tok("from")>> \o wrap_value(b.from_))
  \o compile_joins(b.joins_)
  \o compile_wheres(b.wheres_, "where", 1)
  \o (IF b.groups_ = <<>> THEN <<>>
      ELSE <<Tok("group by")>>
           \o [i \in 1..Len(b.groups_) |-> Tok(b.groups_[i].data)])
  \o compile_wheres(b.havings_, "having", 1)
  \o compile_orders(b.orders_)
  \o compile_limit(b.limit_) \o compile_offset(b.offset_)
  \o (IF b.unions_ = <<>> THEN <<>>
      ELSE compile_unions(b.unions_)
           \o compile_orders(b.union_orders_)
           \o compile_limit(b.union_limit_)
           \o compile_offset(b.union_offset_))

\* Builder::to_sql: the text of the compiled select
to_sql(b) == LET items == compile_select(b)
             IN [i \in 1..Len(items) |-> items[i].s]

\* the values the placeholders of the compiled select stand for, left to right
Placeholders(b) ==
  LET marks == SelectSeq(compile_select(b), LAMBDA x : x.t = "mark")
  IN [i \in 1..Len(marks) |-> marks[i].v]

(***************************************************************************)
(* Select and join.                                                        *)
(***************************************************************************)
add_select(b, column) ==
  [b EXCEPT !.columns_ = @ \o [i \in 1..Len(column) |-> Str(column[i])]]

select_raw(b, expression, bindings) ==
  LET b2 == add_select(b, <<expression>>)
  IN IF bindings # <<>> THEN add_bindings(b2, bindings, "select") ELSE b2

\* query.columns_[0] on an empty column list reads past the end of the
\* vector: the call traps, or goes on with whatever the read yielded
OutOfRange == "read past the end of the column list"
OutOfRangeOutcomes == {"trap", "reads_indeterminate"}
Indeterminate == Str(<<"indeterminate">>)

\* parse_subselect: the sub-query cut to its first column, its text, its bindings
parse_subselect(query, outcome) ==
  LET first == IF query.columns_ # <<>> THEN query.columns_[1]
               ELSE Indeterminate
      q     == [query EXCEPT !.columns_ = <<first>>]
  IN [sql |-> to_sql(q), bindings |-> get_bindings(q),
      error |-> IF query.columns_ = <<>> /\ outcome = "trap"
                  THEN OutOfRange ELSE NoError]

\* Builder::select_sub over a query
select_sub_query(b, query, as, outcome) ==
  LET p == parse_subselect(query, outcome)
      w == wrap_value(as)
  IN IF p.error # NoError THEN Fail(b, p.error)
     ELSE Ok(select_raw(b,
               <<"(">> \o p.sql \o <<")", "as">>
                 \o [i \in 1..Len(w) |-> w[i].s],
               p.bindings))

\* Builder::select_sub over a callback
select_sub(b, callback, as, outcome) ==
  LET r == RunCallback(new_query, callback)
  IN IF r.error # NoError THEN Fail(b, r.error)
     ELSE select_sub_query(b, r.builder, as, outcome)

\* JoinClause::on
on(b, first, oper, second) == where_column(b, first, oper, second, "and")

\* Builder::join with columns: one condition, a where or an on
\* join that leaves the join bucket alone
join_without_bindings(b, table, first, oper, second, type, _where) ==
  LET r == IF _where THEN where(new_query, first, Str(oper), Str(second), "and")
           ELSE Ok(on(new_query, first, oper, second))
  IN IF r.error # NoError THEN Fail(b, r.error)
     ELSE Ok([b EXCEPT !.joins_ = Append(@,
                 [table |-> table, type |-> type, query |-> r.builder])])

join(b, table, first, oper, second, type, _where) ==
  LET r == IF _where THEN where(new_query, first, Str(oper), Str(second), "and")
           ELSE Ok(on(new_query, first, oper, second))
  IN IF r.error # NoError THEN Fail(b, r.error)
     ELSE Ok([add_bindings(b, get_bindings(r.builder), "join")
               EXCEPT !.joins_ = Append(@,
                 [table |-> table, type |-> type, query |-> r.builder])])

\* Builder::join with a callback that states the conditions
join_callback(b, table, callback, type) ==
  LET r == RunCallback(new_query, callback)
  IN IF r.error # NoError THEN Fail(b, r.error)
     ELSE Ok([add_bindings(b, get_bindings(r.builder), "join")
               EXCEPT !.joins_ = Append(@,
                 [table |-> table, type |-> type, query |-> r.builder])])

(***************************************************************************)
(* The calls a program makes on a builder.  Every action is one call:      *)
(* it runs the whole mutator, callback included.  A usage error is fatal:  *)
(* the call leaves the builder as it was and no call follows.              *)
(***************************************************************************)
NoSend == [op |-> "none", sql |-> <<>>, bindings |-> <<>>, state |-> Builder]
NoValue == Value("void", "")

\* handles of a sub-builder: the clause or the local that owns it, or a
\* local whose content was moved away
Owned == "owned"
MovedFrom == "moved_from"
NoAccess == "none"

\* one call: its effect on the builder, what it sent, what it returned
Call(c, r, bound, s, v, a) ==
  /\ ncalls < bound
  /\ err = NoError
  /\ prev' = builder
  /\ builder' = r.builder
  /\ err' = r.error
  /\ last' = c
  /\ ncalls' = ncalls + 1
  /\ sent' = s
  /\ ret' = v
  /\ access' = a

\* a mutator: it sends nothing and returns the builder itself; but for
\* where_exists, a mutator that embeds a sub-builder reads its bindings
\* through the handle that owns it
Do(c, r, bound) ==
  Call(c, r, bound, NoSend, NoValue,
       IF c.cb # <<>> \/ c.op = "join" THEN Owned ELSE NoAccess)

Age == <<"age">>
JsonColumn == <<"meta", "-", ">", "active">>
Qualified == <<"users", ".", "id">>

\* callbacks that build a sub-select: a column, then at most one condition
SubSelects ==
  { <<[NoCall EXCEPT !.op = "select", !.vals = <<Str(<<"id">>)>>]>>,
    <<[NoCall EXCEPT !.op = "select", !.vals = <<Str(<<"id">>)>>],
      [NoCall EXCEPT !.op = "where", !.column = Age, !.oper = Str(">"),
                     !.val = Int32("21")]>> }

\* callbacks that state join conditions
JoinCallbacks ==
  { <<[NoCall EXCEPT !.op = "where_column", !.column = Qualified,
                     !.oper = Str("="), !.val = Str("contacts.user_id")],
      [NoCall EXCEPT !.op = "where", !.column = <<"kind">>,
                     !.oper = Str("="), !.val = Str("home")]>> }

SelectRaw ==
  \E x \in { [sql |-> <<"price", "*", "?">>, vals |-> <<Int32("2")>>] } :
    Do([NoCall EXCEPT !.op = "select_raw", !.sql = x.sql, !.vals = x.vals],
       Ok(select_raw(builder, x.sql, x.vals)), MaxCalls)

SelectSub ==
  \E cb \in {cb \in SubSelects : Len(cb) = 2} :
    \E outcome \in OutOfRangeOutcomes :
      Do([NoCall EXCEPT !.op = "select_sub", !.cb = cb],
         select_sub(builder, cb, "total", outcome), MaxCalls)

Join ==
  \E w \in BOOLEAN :
    Do([NoCall EXCEPT !.op = "join", !.table = "contacts", !.flag = w],
       join(builder, "contacts", Qualified, "=", "contacts.user_id",
            "inner", w), MaxCalls)

JoinCallback ==
  \E cb \in JoinCallbacks :
    Do([NoCall EXCEPT !.op = "join_callback", !.table = "contacts", !.cb = cb],
       join_callback(builder, "contacts", cb, "left"), MaxCalls)

WhereOver(columns, opers, vals, booleans, bound) ==
  \E column \in columns, oper \in opers, val \in vals, boolean \in booleans :
    Do([NoCall EXCEPT !.op = "where", !.column = column, !.oper = oper,
                      !.val = val, !.boolean = boolean],
       where(builder, column, oper, val, boolean), bound)

Where ==
  \/ WhereOver({Age}, {Str(">")}, {Int32("18")}, {"and"}, MaxCalls)
  \/ WhereOver({<<"active">>, JsonColumn}, {Str("=")}, {Bool(TRUE)}, {"and"},
               MaxCalls)
  \/ WhereOver({Age}, {Str("=")}, {raw("now()")}, {"or"}, MaxCalls)

WhereColumn ==
  Do([NoCall EXCEPT !.op = "where_column", !.column = <<"first">>,
                    !.oper = Str("<"), !.val = Str("second")],
     Ok(where_column(builder, <<"first">>, "<", "second", "and")), MaxCalls)

WhereRaw ==
  Do([NoCall EXCEPT !.op = "where_raw", !.sql = <<"x", "=", "?">>,
                    !.vals = <<Int32("7")>>],
     Ok(where_raw(builder, <<"x", "=", "?">>, <<Int32("7")>>, "and")), MaxCalls)

WhereIn ==
  \E x \in { [vals |-> <<>>, isnot |-> FALSE],
             [vals |-> <<Int32("1"), raw("now()"), Int32("3")>>,
              isnot |-> TRUE] } :
    LET vals == x.vals
        isnot == x.isnot
    IN
    Do([NoCall EXCEPT !.op = "where_in", !.column = <<"id">>, !.vals = vals,
                      !.flag = isnot],
       Ok(where_in(builder, <<"id">>, vals, "and", isnot)), MaxCalls)

WhereNull ==
  \E isnot \in {TRUE} :
    Do([NoCall EXCEPT !.op = "where_null", !.column = <<"deleted">>,
                      !.flag = isnot],
       Ok(where_null(builder, <<"deleted">>, "and", isnot)), MaxCalls)

WhereBetween ==
  \E vals \in { <<Int32("1"), Int32("9")>>,
                <<raw("now()"), Int32("9")>>,
                <<Int32("1"), Int32("5"), Int32("9")>> } :
    Do([NoCall EXCEPT !.op = "where_between", !.column = Age, !.vals = vals],
       Ok(where_between(builder, Age, vals, "and", FALSE)), MaxCalls)

WhereDateOver(parts, opers, vals, booleans, bound) ==
  \E part \in parts, oper \in opers, val \in vals, boolean \in booleans :
    Do([NoCall EXCEPT !.op = "where_date", !.type = part,
                      !.column = <<"created">>, !.oper = Str(oper),
                      !.val = val, !.boolean = boolean],
       where_date(builder, part, <<"created">>, oper, val, boolean), bound)

WhereDate ==
  \/ WhereDateOver({"day", "year"}, {">="}, {Str("2020")},
                   {"and"}, MaxCalls)
  \/ WhereDateOver({"date"}, {"="}, {raw("now()")}, {"and"}, MaxCalls)

WhereSub ==
  \E cb \in {cb \in SubSelects : Len(cb) = 2} :
    Do([NoCall EXCEPT !.op = "where_sub", !.column = <<"id">>,
                      !.oper = Str("="), !.cb = cb],
       where_sub(builder, <<"id">>, "=", cb, "and"), MaxCalls)

WhereInsub ==
  \E cb \in {cb \in SubSelects : Len(cb) = 2} :
    Do([NoCall EXCEPT !.op = "where_insub", !.column = <<"id">>, !.cb = cb],
       where_insub(builder, <<"id">>, cb, "and", FALSE), MaxCalls)

GroupBy ==
  Do([NoCall EXCEPT !.op = "group_by", !.vals = <<Str("dept")>>],
     Ok(group_by(builder, <<Str("dept")>>)), MaxCalls)

HavingOver(opers, vals, booleans, bound) ==
  \E oper \in opers, val \in vals, boolean \in booleans :
    Do([NoCall EXCEPT !.op = "having", !.column = <<"total">>, !.oper = oper,
                      !.val = val, !.boolean = boolean],
       having(builder, <<"total">>, oper, val, boolean), bound)

Having == HavingOver({Str(">")}, {Int32("100"), raw("avg")}, {"and"}, MaxCalls)

HavingRaw ==
  Do([NoCall EXCEPT !.op = "having_raw", !.sql = <<"sum", ">", "?">>,
                    !.vals = <<Int32("8")>>],
     Ok(having_raw(builder, <<"sum", ">", "?">>, <<Int32("8")>>, "and")),
     MaxCalls)

OrderBy ==
  \E direction \in {"asc", "up"} :
    Do([NoCall EXCEPT !.op = "order_by", !.column = <<"name">>,
                      !.type = direction],
       Ok(order_by(builder, <<"name">>, direction)), MaxCalls)

OrderByRaw ==
  \E x \in { [sql |-> <<"rand()">>, vals |-> <<>>],
             [sql |-> <<"field", "(", "?", ")">>, vals |-> <<Int32("4")>>] } :
    Do([NoCall EXCEPT !.op = "order_byraw", !.sql = x.sql, !.vals = x.vals],
       Ok(order_byraw(builder, x.sql, x.vals)), MaxCalls)

Limit ==
  \E val \in {-1, 5} :
    Do([NoCall EXCEPT !.op = "limit", !.n = val],
       Ok(limit(builder, val)), MaxCalls)

Offset ==
  \E val \in {-3, 2} :
    Do([NoCall EXCEPT !.op = "offset", !.n = val],
       Ok(offset(builder, val)), MaxCalls)

Union ==
  \E x \in {<<1, FALSE>>, <<2, TRUE>>} :
    \E cb \in {c \in SubSelects : Len(c) = x[1]}, all \in {x[2]} :
    Do([NoCall EXCEPT !.op = "_union", !.cb = cb, !.flag = all],
       _union(builder, cb, all), MaxCalls)

Init ==
  /\ builder = Builder
  /\ prev = Builder
  /\ last = NoCall
  /\ err = NoError
  /\ ncalls = 0
  /\ sent = NoSend
  /\ ret = NoValue
  /\ access = NoAccess

Next ==
  \/ SelectRaw \/ SelectSub \/ Join \/ JoinCallback
  \/ Where \/ WhereColumn \/ WhereRaw \/ WhereIn \/ WhereNull
  \/ WhereBetween \/ WhereDate \/ WhereSub \/ WhereInsub
  \/ GroupBy \/ Having \/ HavingRaw
  \/ OrderBy \/ OrderByRaw \/ Limit \/ Offset \/ Union

Spec == Init /\ [][Next]_vars

(***************************************************************************)
(* The predicate mutators over the operator and value combinations that    *)
(* decide their normalisation: the two-argument form (the value in the     *)
(* operator's place, the value argument left at its default ""), empty     *)
(* values, unknown operators, booleans on JSON columns.                    *)
(***************************************************************************)
DefaultVal == Str("")

PredicateWhere ==
  \/ WhereOver({Age}, {Str("="), Str("<>"), Str(">"), Str("foo")},
               {Null, DefaultVal, Int32("18"), raw("now()")}, {"and", "or"},
               MaxPredicateCalls)
  \/ WhereOver({<<"active">>, JsonColumn}, {Str("=")},
               {Bool(TRUE), Bool(FALSE)}, {"and", "or"}, MaxPredicateCalls)
  \/ WhereOver({Age}, {Null, Int32("18"), Str("like")}, {DefaultVal},
               {"and", "or"}, MaxPredicateCalls)
  \/ WhereOver({<<"active">>, JsonColumn}, {Bool(TRUE)}, {DefaultVal},
               {"and", "or"}, MaxPredicateCalls)

PredicateWhereClosure ==
  \E x \in { [column |-> Age, oper |-> Str("")],
             [column |-> Age, oper |-> Str("=")],
             [column |-> Age, oper |-> Str("foo")],
             [column |-> <<"active">>, oper |-> Bool(TRUE)],
             [column |-> JsonColumn, oper |-> Bool(TRUE)],
             [column |-> JsonColumn, oper |-> Bool(FALSE)] },
     boolean \in {"and", "or"},
     cb \in {c \in SubSelects : Len(c) = 2} :
    Do([NoCall EXCEPT !.op = "where_closure", !.column = x.column,
                      !.oper = x.oper, !.boolean = boolean, !.cb = cb],
       where_closure(builder, x.column, x.oper, cb, boolean),
       MaxPredicateCalls)

PredicateWhereDate ==
  \/ WhereDateOver({"date", "day", "month", "year"}, {">"}, {Null},
                   {"and", "or"}, MaxPredicateCalls)
  \/ WhereDateOver({"date", "year"}, {"=", "foo"}, {Str("2020")}, {"and"},
                   MaxPredicateCalls)

PredicateHaving ==
  HavingOver({Str(">"), Str("foo")}, {Null, Int32("100")}, {"and", "or"},
             MaxPredicateCalls)

PredicateWhereColumn ==
  \E oper \in {"<", "foo"} :
    Do([NoCall EXCEPT !.op = "where_column", !.column = <<"first">>,
                      !.oper = Str(oper), !.val = Str("second")],
       Ok(where_column(builder, <<"first">>, oper, "second", "and")),
       MaxPredicateCalls)

PredicateWhereSub ==
  \E oper \in {"=", "foo"}, cb \in {c \in SubSelects : Len(c) = 2} :
    Do([NoCall EXCEPT !.op = "where_sub", !.column = <<"id">>,
                      !.oper = Str(oper), !.cb = cb],
       where_sub(builder, <<"id">>, oper, cb, "and"), MaxPredicateCalls)

NextPredicate ==
  \/ PredicateWhere \/ PredicateWhereClosure \/ PredicateWhereDate
  \/ PredicateHaving \/ PredicateWhereColumn \/ PredicateWhereSub

SpecPredicate == Init /\ [][NextPredicate]_vars

(***************************************************************************)
(* The mutators that take a callback, over callbacks that add none, one    *)
(* or several bindings to the sub-builder they receive.                    *)
(***************************************************************************)
MaxCallbackCalls == 2

\* callbacks that state conditions: a bound value, a raw one, a raw text
Conditions ==
  { <<[NoCall EXCEPT !.op = "where", !.column = Age, !.oper = Str(">"),
                     !.val = Int32("21")]>>,
    <<[NoCall EXCEPT !.op = "where", !.column = Age, !.oper = Str("="),
                     !.val = raw("now()")]>>,
    <<[NoCall EXCEPT !.op = "where", !.column = <<"kind">>,
                     !.oper = Str("="), !.val = Str("home")],
      [NoCall EXCEPT !.op = "where_raw", !.sql = <<"x", "=", "?">>,
                     !.vals = <<Int32("7")>>, !.boolean = "or"]>> }

CallbackSelectSub ==
  \E cb \in SubSelects :
    \E outcome \in OutOfRangeOutcomes :
      Do([NoCall EXCEPT !.op = "select_sub", !.cb = cb],
         select_sub(builder, cb, "total", outcome), MaxCallbackCalls)

CallbackJoin ==
  \E cb \in JoinCallbacks :
    Do([NoCall EXCEPT !.op = "join_callback", !.table = "contacts", !.cb = cb],
       join_callback(builder, "contacts", cb, "left"), MaxCallbackCalls)

CallbackWhereSub ==
  \E cb \in SubSelects :
    Do([NoCall EXCEPT !.op = "where_sub", !.column = <<"id">>,
                      !.oper = Str("="), !.cb = cb],
       where_sub(builder, <<"id">>, "=", cb, "and"), MaxCallbackCalls)

CallbackWhereInsub ==
  \E cb \in SubSelects, isnot \in BOOLEAN :
    Do([NoCall EXCEPT !.op = "where_insub", !.column = <<"id">>, !.cb = cb,
                      !.flag = isnot],
       where_insub(builder, <<"id">>, cb, "and", isnot), MaxCallbackCalls)

CallbackWhereExists ==
  \E cb \in Conditions, isnot \in BOOLEAN, outcome \in UseAfterMoveOutcomes :
    Call([NoCall EXCEPT !.op = "where_exists", !.cb = cb, !.flag = isnot],
         where_exists(builder, cb, "and", isnot, outcome), MaxCallbackCalls,
         NoSend, NoValue, MovedFrom)

CallbackUnion ==
  \E cb \in SubSelects \cup Conditions, all \in BOOLEAN :
    Do([NoCall EXCEPT !.op = "_union", !.cb = cb, !.flag = all],
       _union(builder, cb, all), MaxCallbackCalls)

NextCallback ==
  \/ CallbackSelectSub \/ CallbackJoin \/ CallbackWhereSub
  \/ CallbackWhereInsub \/ CallbackWhereExists \/ CallbackUnion

SpecCallback == Init /\ [][NextCallback]_vars

(***************************************************************************)
(* Execution.  The connection is the builder's only collaborator: a call   *)
(* that executes hands it a compiled text and a binding sequence, and gets *)
(* back rows (db_fetch_array_t) or a count.  A row maps column names to    *)
(* values.                                                                 *)
(***************************************************************************)
\* what connection_->select, insert, deleted receive; `state` is the builder
\* as it was when the text was compiled
Send(op, sql, bindings, state) ==
  [op |-> op, sql |-> sql, bindings |-> bindings, state |-> state]

\* db_fetch_array_t::get(row, key): a handle to the value, or none (null);
\* rows are counted from 0
results_get(results, row, key) ==
  IF row + 1 <= Len(results) /\ key \in DOMAIN results[row + 1]
    THEN <<results[row + 1][key]>> ELSE <<>>

\* Builder::from
from(b, table) == [b EXCEPT !.from_ = table]

\* Grammar::compile_exists
compile_exists(b) ==
  Toks(<<"select", "exists", "(">>) \o compile_select(b)
    \o Toks(<<")", "as">>) \o wrap_value("exists")

\* Grammar::compile_delete
compile_delete(b) ==
  <<Tok("delete from")>> \o wrap_value(b.from_)
    \o compile_wheres(b.wheres_, "where", 1)

\* Builder::run_select: the text and the bindings the connection receives
run_select(b) == Send("select", compile_select(b), get_bindings(b), b)

\* get that leaves the columns it was given in the column list
get_without_restore(b, columns) ==
  LET original == b.columns_
      b1 == IF original = <<>> THEN [b EXCEPT !.columns_ = columns] ELSE b
  IN [builder |-> b1, sent |-> run_select(b1)]

\* Builder::get: the builder it leaves and what it sent
get(b, columns) ==
  LET original == b.columns_
      b1 == IF original = <<>> THEN [b EXCEPT !.columns_ = columns] ELSE b
  IN [builder |-> [b1 EXCEPT !.columns_ = original], sent |-> run_select(b1)]

\* Builder::exists: what it sent, and the flag it returns for the rows
exists(b, results) ==
  [sent |-> Send("select", compile_exists(b), get_bindings(b), b),
   ret  |-> Bool(results_get(results, 0, "exists") # <<>>)]

\* The entry bindings_.begin() designates.  The store's container type is
\* declared outside this file: begin() is the entry of the least key when
\* the store is ordered by key, and any entry when it is hashed.
FirstKeys(b) == DOMAIN b.bindings_

\* Builder::deleted, `first` being the key of bindings_.begin()
deleted(b, id, first) ==
  LET r == IF id.data # ""
             THEN where(b, <<b.from_, ".", "id">>, Str("="), id, "and")
             ELSE Ok(b)
      b2 == r.builder
      bindings == IF DOMAIN b2.bindings_ # {} THEN b2.bindings_[first]
                  ELSE <<>>
  IN [builder |-> b2, error |-> r.error,
      sent |-> Send("deleted", compile_delete(b2), bindings, b2)]

\* Builder::clean_bindings_expression
clean_bindings_expression(bindings) ==
  SelectSeq(bindings, LAMBDA val : ~is_expression(val))

\* A record (variable_set_t) is the sequence of its <<key, value>> entries
\* in the order its iteration visits them, the order of the keys.
record_values(record) == [i \in 1..Len(record) |-> record[i][2]]

\* Grammar::compile_insert: the column list of the first record, then one
\* parenthesised group of parameters for each record
RECURSIVE compile_insert_groups(_)
compile_insert_groups(vals) ==
  IF vals = <<>> THEN <<>>
  ELSE <<Tok("(")>> \o parameterize(record_values(Head(vals))) \o <<Tok(")")>>
       \o (IF Len(vals) > 1 THEN <<Tok(",")>> ELSE <<>>)
       \o compile_insert_groups(Tail(vals))

compile_insert(b, vals) ==
  <<Tok("insert into")>> \o wrap_value(b.from_) \o <<Tok("(")>>
    \o [i \in 1..Len(vals[1]) |-> Tok(vals[1][i][1])]
    \o Toks(<<")", "values">>) \o compile_insert_groups(vals)

\* Builder::insert: what it sends (nothing for an empty batch)
insert(b, vals) ==
  IF vals = <<>> THEN NoSend
  ELSE LET cbindings == record_values(vals[1])
       IN Send("insert", compile_insert(b, vals),
               clean_bindings_expression(cbindings), b)

\* batches of records that share their keys
InsertBatches ==
  { <<>>,
    << <<<<"a", Int32("1")>>, <<"b", Int32("2")>>>> >>,
    << <<<<"a", Int32("1")>>, <<"b", raw("now()")>>>> >>,
    << <<<<"a", Int32("1")>>, <<"b", Int32("2")>>>>,
       <<<<"a", Int32("3")>>, <<"b", Int32("4")>>>> >> }

MissingReturn == "control reaches the end of Builder::clear"

\* Builder::clear assigns the fields below and then flows off its end
\* without a return statement, although it is declared to return a
\* reference: the call hands back an indeterminate reference or traps.
ClearOutcomes == {"returns", "traps"}

clear(b, outcome) ==
  LET b2 == [b EXCEPT
               !.bindings_ = [k \in {"select", "join", "where", "having",
                                     "order", "union"} |-> <<>>],
               !.distinct_ = FALSE,
               !.limit_ = -1,
               !.offset_ = -1,
               !.union_limit_ = -1,
               !.union_offset_ = -1,
               !.lock_ = Null,
               !.aggregate_ = <<>>,
               !.columns_ = <<>>,
               !.joins_ = <<>>,
               !.wheres_ = <<>>,
               !.groups_ = <<>>,
               !.havings_ = <<>>,
               !.unions_ = <<>>,
               !.orders_ = <<>>,
               !.union_orders_ = <<>>]
  IN IF outcome = "traps" THEN Fail(b2, MissingReturn) ELSE Ok(b2)

\* Builder::clean
clean(b, except) ==
  CASE "columns" = except      -> [b EXCEPT !.columns_ = <<>>]
    [] "distinct" = except     -> [b EXCEPT !.distinct_ = FALSE]
    [] "from" = except         -> [b EXCEPT !.from_ = ""]
    [] "joins" = except        -> [b EXCEPT !.joins_ = <<>>]
    [] "wheres" = except       -> [b EXCEPT !.wheres_ = <<>>]
    [] "groups" = except       -> [b EXCEPT !.groups_ = <<>>]
    [] "havings" = except      -> [b EXCEPT !.havings_ = <<>>]
    [] "orders" = except       -> [b EXCEPT !.orders_ = <<>>]
    [] "limit" = except        -> [b EXCEPT !.limit_ = -1]
    [] "offset" = except       -> [b EXCEPT !.offset_ = -1]
    [] "unions" = except       -> [b EXCEPT !.unions_ = <<>>]
    [] "union_limit" = except  -> [b EXCEPT !.union_offset_ = -1]
    [] "union_offset" = except -> [b EXCEPT !.union_offset_ = -1]
    [] "union_orders" = except -> [b EXCEPT !.union_orders_ = <<>>]
    [] "lock" = except         -> [b EXCEPT !.lock_ = Bool(FALSE)]
    [] "operators" = except    -> [b EXCEPT !.operators_ = {}]
    [] OTHER                   -> b

\* Builder::clean_bindings: bindings_[type] = {} for each name, which
\* creates the entry when the store has none of that name
RECURSIVE clean_bindings(_, _)
clean_bindings(b, except) ==
  IF except = <<>> THEN b
  ELSE clean_bindings(
         [b EXCEPT !.bindings_ =
            [k \in DOMAIN b.bindings_ \cup {Head(except)} |->
               IF k = Head(except) THEN <<>> ELSE b.bindings_[k]]],
         Tail(except))

\* pf_support::implode on the texts of the columns
RECURSIVE implode(_, _)
implode(glue, columns) ==
  IF columns = <<>> THEN <<>>
  ELSE Head(columns).data
       \o (IF Len(columns) > 1 THEN <<glue>> ELSE <<>>)
       \o implode(glue, Tail(columns))

\* Builder::set_aggregate
set_aggregate(b, function, columns) ==
  LET b2 == [b EXCEPT !.aggregate_ =
               [function |-> function, columns |-> implode(", ", columns)]]
  IN IF b2.groups_ = <<>>
       THEN [b2 EXCEPT !.orders_ = <<>>, !.bindings_["order"] = <<>>]
       ELSE b2

\* aggregate working on the builder it is called on
aggregate_on_this(b, function, columns, results) ==
  LET g == get(set_aggregate(clean_bindings(clean(b, "columns"),
                                            <<"select">>),
                             function, columns),
               columns)
      _result == results_get(results, 0, "aggregate")
  IN [builder |-> g.builder, query |-> g.builder, sent |-> g.sent,
      ret |-> IF _result # <<>> THEN _result[1] ELSE Null]

\* Builder::aggregate: the caller's builder, the instance the select ran
\* on as get left it, what was sent, the value returned
aggregate(b, function, columns, results) ==
  LET g == get(set_aggregate(clean_bindings(clean(new_query, "columns"),
                                            <<"select">>),
                             function, columns),
               columns)
      _result == results_get(results, 0, "aggregate")
  IN [builder |-> b, query |-> g.builder, sent |-> g.sent,
      ret |-> IF _result # <<>> THEN _result[1] ELSE Null]

kVariableTypeDouble == "double"

\* a text whose characters the code looks into
Text(chars) == Value(kVariableTypeString, chars)

Digits == {"0", "1", "2", "3", "4", "5", "6", "7", "8", "9"}

RECURSIVE DigitPrefix(_)
DigitPrefix(chars) ==
  IF chars = <<>> \/ Head(chars) \notin Digits THEN <<>>
  ELSE <<Head(chars)>> \o DigitPrefix(Tail(chars))

\* variable_t::get<int32_t>: the integer the text starts with, 0 if none
get_int32(v) ==
  LET d == DigitPrefix(v.data) IN IF d = <<>> THEN <<"0">> ELSE d

\* variable_t::get<double>: the decimal number the text starts with
get_double(v) ==
  LET d    == DigitPrefix(v.data)
      rest == SubSeq(v.data, Len(d) + 1, Len(v.data))
      f    == IF rest # <<>> /\ Head(rest) = "." THEN DigitPrefix(Tail(rest))
              ELSE <<>>
  IN (IF d = <<>> THEN <<"0">> ELSE d) \o <<".">>
     \o (IF f = <<>> THEN <<"0">> ELSE f)

\* an int32_t converted to double
int32_to_double(digits) == digits \o <<".", "0">>

\* Builder::numeric_aggregate.  The two branches of the conditional on
\* lines 983-984 are a double and an int32_t, so the expression is a double
\* whichever is taken and the value returned is built from a double.
numeric_aggregate(b, function, columns, results) ==
  LET a == aggregate(b, function, columns, results)
      result == a.ret
  IN [builder |-> a.builder, query |-> a.query, sent |-> a.sent,
      ret |-> IF empty(result) THEN Value(kVariableTypeInt32, <<"0">>)
              ELSE IF result.type # kVariableTypeString THEN result
              ELSE IF contains(result.data, <<".">>)
                THEN Value(kVariableTypeDouble, get_double(result))
                ELSE Value(kVariableTypeDouble,
                           int32_to_double(get_int32(result)))]

\* result sets of an aggregate select: no row, a text with and without a
\* decimal point, a number, an empty text
AggregateResults ==
  { <<>>,
    <<[aggregate |-> Text(<<"4", "2">>)]>>,
    <<[aggregate |-> Text(<<"3", ".", "5">>)]>>,
    <<[aggregate |-> Value(kVariableTypeInt32, <<"7">>)]>>,
    <<[aggregate |-> Text(<<>>)]>> }

\* the aggregates asked for: count(*), sum(price), max of two columns,
\* one without columns
Aggregates ==
  { [function |-> "count", columns |-> <<Str(<<"*">>)>>],
    [function |-> "sum", columns |-> <<Str(<<"price">>)>>],
    [function |-> "max", columns |-> <<Str(<<"a">>), Str(<<"b">>)>>],
    [function |-> "count", columns |-> <<>>] }

MaxExecuteCalls == 3

\* result sets of an exists query: no row, a row that says yes, rows that
\* say no
ExistsResults ==
  { <<>>, <<[exists |-> Int32("1")]>>, <<[exists |-> Int32("0")]>>,
    <<[exists |-> Bool(FALSE)]>> }

\* result sets of a select
SelectResults == { <<>>, <<[id |-> Int32("1")]>> }

ExecuteFrom ==
  Do([NoCall EXCEPT !.op = "from", !.table = "users"],
     Ok(from(builder, "users")), MaxExecuteCalls)

ExecuteWhere ==
  \/ WhereOver({Age}, {Str(">")}, {Int32("18")}, {"and"}, MaxExecuteCalls)
  \/ HavingOver({Str(">")}, {Int32("100")}, {"and"}, MaxExecuteCalls)
  \/ \E x \in { [sql |-> <<"price", "*", "?">>, vals |-> <<Int32("2")>>] } :
       Do([NoCall EXCEPT !.op = "select_raw", !.sql = x.sql, !.vals = x.vals],
          Ok(select_raw(builder, x.sql, x.vals)), MaxExecuteCalls)

ExecuteGet ==
  \E columns \in { <<>>, <<Str(<<"name">>)>> }, results \in SelectResults :
    LET r == get(builder, columns)
    IN Call([NoCall EXCEPT !.op = "get", !.vals = columns],
            Ok(r.builder), MaxExecuteCalls, r.sent, results, NoAccess)

ExecuteExists ==
  \E results \in ExistsResults :
    LET r == exists(builder, results)
    IN Call([NoCall EXCEPT !.op = "exists", !.vals = results],
            Ok(builder), MaxExecuteCalls, r.sent, r.ret, NoAccess)

ExecuteDeleted ==
  \E id \in {Str(""), Int32("5")}, first \in FirstKeys(builder) :
    LET r == deleted(builder, id, first)
    IN Call([NoCall EXCEPT !.op = "deleted", !.val = id, !.type = first],
            [builder |-> r.builder, error |-> r.error], MaxExecuteCalls,
            r.sent, Int32("1"), NoAccess)

ExecuteInsert ==
  \E vals \in InsertBatches :
    Call([NoCall EXCEPT !.op = "insert", !.vals = vals],
         Ok(builder), MaxExecuteCalls, insert(builder, vals), Bool(TRUE),
         NoAccess)

ExecuteClear ==
  \E outcome \in ClearOutcomes :
    Do([NoCall EXCEPT !.op = "clear"], clear(builder, outcome),
       MaxExecuteCalls)

ExecuteClean ==
  \E except \in {"operators", "wheres", "lock"} :
    Do([NoCall EXCEPT !.op = "clean", !.type = except],
       Ok(clean(builder, except)), MaxExecuteCalls)

ExecuteCleanBindings ==
  \E except \in { <<"select">>, <<"where", "extra">> } :
    Do([NoCall EXCEPT !.op = "clean_bindings", !.vals = except],
       Ok(clean_bindings(builder, except)), MaxExecuteCalls)

ExecuteAggregate ==
  \E x \in Aggregates, results \in AggregateResults :
    LET r == aggregate(builder, x.function, x.columns, results)
    IN Call([NoCall EXCEPT !.op = "aggregate", !.type = x.function,
                           !.column = x.columns, !.vals = results],
            Ok(r.builder), MaxExecuteCalls, r.sent, r.ret, NoAccess)

ExecuteNumericAggregate ==
  \E x \in {a \in Aggregates : Len(a.columns) = 1},
     results \in AggregateResults :
    LET r == numeric_aggregate(builder, x.function, x.columns, results)
    IN Call([NoCall EXCEPT !.op = "numeric_aggregate", !.type = x.function,
                           !.column = x.columns, !.vals = results],
            Ok(r.builder), MaxExecuteCalls, r.sent, r.ret, NoAccess)

ExecuteToSql ==
  Call([NoCall EXCEPT !.op = "to_sql"], Ok(builder), MaxExecuteCalls,
       NoSend, to_sql(builder), NoAccess)

ExecuteGetBindings ==
  Call([NoCall EXCEPT !.op = "get_bindings"], Ok(builder), MaxExecuteCalls,
       NoSend, get_bindings(builder), NoAccess)

NextExecute ==
  \/ ExecuteFrom \/ ExecuteWhere
  \/ ExecuteGet \/ ExecuteExists \/ ExecuteDeleted \/ ExecuteInsert
  \/ ExecuteClear \/ ExecuteClean \/ ExecuteCleanBindings
  \/ ExecuteAggregate \/ ExecuteNumericAggregate
  \/ ExecuteToSql \/ ExecuteGetBindings

SpecExecute == Init /\ [][NextExecute]_vars

(***************************************************************************)
(* The binding store handled directly: set_bindings, add_bindings,         *)
(* add_binding, merge_bindings, clean_bindings, get_bindings.              *)
(***************************************************************************)
InvalidBindingType(type) == "Invalid binding type: " \o type

\* the test that opens set_bindings, add_bindings and add_binding: the
\* usage error for a name the store has no entry of
binding_type_error(b, type) ==
  IF type \notin DOMAIN b.bindings_ THEN InvalidBindingType(type)
  ELSE NoError

\* Builder::set_bindings
set_bindings(b, bindings, type) ==
  IF type \notin DOMAIN b.bindings_ THEN Fail(b, InvalidBindingType(type))
  ELSE Ok([b EXCEPT !.bindings_[type] = bindings])

\* Builder::merge_bindings: add_bindings for each entry of the other store
RECURSIVE merge_entries(_, _, _)
merge_entries(b, query, keys) ==
  IF keys = {} THEN Ok(b)
  ELSE LET k == CHOOSE x \in keys : TRUE
           e == binding_type_error(b, k)
       IN IF e # NoError THEN Fail(b, e)
          ELSE merge_entries(add_bindings(b, query.bindings_[k], k), query,
                             keys \ {k})

merge_bindings(b, query) == merge_entries(b, query, DOMAIN query.bindings_)

MaxStoreCalls == 3

BucketNames == {"where", "extra"}

StoreSetBindings ==
  \E type \in BucketNames, bindings \in { <<>>, <<Int32("9")>> } :
    Do([NoCall EXCEPT !.op = "set_bindings", !.type = type, !.vals = bindings],
       set_bindings(builder, bindings, type), MaxStoreCalls)

StoreAddBindings ==
  \E type \in BucketNames :
    Do([NoCall EXCEPT !.op = "add_bindings", !.type = type,
                      !.vals = <<Int32("1"), Int32("2")>>],
       [builder |-> add_bindings(builder, <<Int32("1"), Int32("2")>>, type),
        error |-> binding_type_error(builder, type)], MaxStoreCalls)

StoreAddBinding ==
  \E type \in BucketNames :
    Do([NoCall EXCEPT !.op = "add_binding", !.type = type,
                      !.val = Int32("3")],
       [builder |-> add_binding(builder, Int32("3"), type),
        error |-> binding_type_error(builder, type)], MaxStoreCalls)

\* the builders merge_bindings is handed: one with a where binding, one
\* whose store was given a further entry
MergedQueries ==
  { where(new_query, Age, Str(">"), Int32("21"), "and").builder,
    clean_bindings(new_query, <<"extra">>) }

StoreMergeBindings ==
  \E query \in MergedQueries :
    Do([NoCall EXCEPT !.op = "merge_bindings",
                      !.vals = get_bindings(query)],
       merge_bindings(builder, query), MaxStoreCalls)

StoreCleanBindings ==
  \E except \in { <<>>, <<"where">>, <<"select", "where">>, <<"extra">> } :
    Do([NoCall EXCEPT !.op = "clean_bindings", !.vals = except],
       Ok(clean_bindings(builder, except)), MaxStoreCalls)

StoreGetBindings ==
  Call([NoCall EXCEPT !.op = "get_bindings"], Ok(builder), MaxStoreCalls,
       NoSend, get_bindings(builder), NoAccess)

StoreWhere ==
  \/ WhereOver({Age}, {Str(">")}, {Int32("18")}, {"and"}, MaxStoreCalls)
  \/ \E x \in { [sql |-> <<"price", "*", "?">>, vals |-> <<Int32("2")>>] } :
       Do([NoCall EXCEPT !.op = "select_raw", !.sql = x.sql, !.vals = x.vals],
          Ok(select_raw(builder, x.sql, x.vals)), MaxStoreCalls)

ElevenValues ==
  <<Int32("100"), Int32("101"), Int32("102"), Int32("103"), Int32("104"),
    Int32("105"), Int32("106"), Int32("107"), Int32("108"), Int32("109"),
    Int32("110")>>

WhereInLists ==
  { <<>>, <<Int32("1"), raw("now()"), Int32("2")>>, ElevenValues }

StoreWhereIn ==
  \E vals \in WhereInLists, isnot \in BOOLEAN :
    Do([NoCall EXCEPT !.op = "where_in", !.column = <<"id">>, !.vals = vals,
                      !.flag = isnot],
       Ok(where_in(builder, <<"id">>, vals, "and", isnot)), MaxStoreCalls)

NextStore ==
  \/ StoreWhereIn
  \/ StoreSetBindings \/ StoreAddBindings \/ StoreAddBinding
  \/ StoreMergeBindings \/ StoreCleanBindings \/ StoreGetBindings
  \/ StoreWhere

SpecStore == Init /\ [][NextStore]_vars

(***************************************************************************)
(* The members clean resets, with the mutators that fill them.             *)
(***************************************************************************)
MaxCleanCalls == 3

CleanNames ==
  {"columns", "distinct", "from", "joins", "wheres", "groups", "havings",
   "orders", "limit", "offset", "unions", "union_limit", "union_offset",
   "union_orders", "lock", "operators"}

CleanClean ==
  \E except \in CleanNames \cup {"bindings"} :
    Do([NoCall EXCEPT !.op = "clean", !.type = except],
       Ok(clean(builder, except)), MaxCleanCalls)

CleanClear ==
  \E outcome \in ClearOutcomes :
    Do([NoCall EXCEPT !.op = "clear"], clear(builder, outcome), MaxCleanCalls)

CleanLimit ==
  \E val \in {-1, 5} :
    Do([NoCall EXCEPT !.op = "limit", !.n = val],
       Ok(limit(builder, val)), MaxCleanCalls)

CleanOffset ==
  \E val \in {-3, 2} :
    Do([NoCall EXCEPT !.op = "offset", !.n = val],
       Ok(offset(builder, val)), MaxCleanCalls)

CleanUnion ==
  \E cb \in {c \in SubSelects : Len(c) = 1} :
    Do([NoCall EXCEPT !.op = "_union", !.cb = cb],
       _union(builder, cb, FALSE), MaxCleanCalls)

CleanFill ==
  \/ Do([NoCall EXCEPT !.op = "from", !.table = "users"],
        Ok(from(builder, "users")), MaxCleanCalls)
  \/ Do([NoCall EXCEPT !.op = "select_raw", !.sql = <<"price">>],
        Ok(select_raw(builder, <<"price">>, <<>>)), MaxCleanCalls)
  \/ Do([NoCall EXCEPT !.op = "join", !.table = "contacts"],
        join(builder, "contacts", Qualified, "=", "contacts.user_id",
             "inner", FALSE), MaxCleanCalls)
  \/ WhereOver({Age}, {Str(">")}, {Int32("18")}, {"and"}, MaxCleanCalls)
  \/ Do([NoCall EXCEPT !.op = "group_by", !.vals = <<Str("dept")>>],
        Ok(group_by(builder, <<Str("dept")>>)), MaxCleanCalls)
  \/ HavingOver({Str(">")}, {Int32("100")}, {"and"}, MaxCleanCalls)
  \/ Do([NoCall EXCEPT !.op = "order_by", !.column = <<"name">>,
                       !.type = "asc"],
        Ok(order_by(builder, <<"name">>, "asc")), MaxCleanCalls)

NextClean ==
  \/ CleanClean \/ CleanClear \/ CleanLimit \/ CleanOffset \/ CleanUnion
  \/ CleanFill

SpecClean == Init /\ [][NextClean]_vars

(***************************************************************************)
(* Nested where groups, sub-selects over an existing query, and the join   *)
(* forms.                                                                  *)
(***************************************************************************)
\* Builder::for_nested_where: a new query over the same table
for_nested_where(b) == from(new_query, b.from_)

\* add_nested_where_query without the test for an empty where list
add_nested_where_query_always(b, query, boolean) ==
  [add_bindings(b, get_bindings(query), "where")
     EXCEPT !.wheres_ = Append(@,
       [type |-> "nested", boolean |-> boolean, query |-> query])]

add_nested_where_query(b, query, boolean) ==
  IF query.wheres_ # <<>>
    THEN [add_bindings(b, get_bindings(query), "where")
            EXCEPT !.wheres_ = Append(@,
              [type |-> "nested", boolean |-> boolean, query |-> query])]
    ELSE b

\* Builder::where_nested: the callback runs on for_nested_where(), then the
\* query goes to add_nested_where_query
where_nested(b, callback, boolean) ==
  LET r == RunCallback(for_nested_where(b), callback)
  IN IF r.error # NoError THEN Fail(b, r.error)
     ELSE Ok(add_nested_where_query(b, r.builder, boolean))

\* Builder::where_in_existing_query: the clause embeds query.new_query()
where_in_existing_query(b, column, query, boolean, isnot) ==
  LET _query == new_query
  IN [add_bindings(b, get_bindings(_query), "where")
        EXCEPT !.wheres_ = Append(@,
          [type |-> IF isnot THEN "not_insub" ELSE "insub",
           column |-> column, boolean |-> boolean, query |-> _query])]

cross_join(b, table, first, oper, second) ==
  IF first # <<>> THEN join(b, table, first, oper, second, "cross", FALSE)
  ELSE Ok([b EXCEPT !.joins_ = Append(@,
             [table |-> table, type |-> "cross", query |-> new_query])])

\* Builder::add_array_of_wheres over a keyed record: one call per entry on
\* the sub-builder of where_nested; the second test is the non-empty literal
\* "where_column", so every other method name adds column comparisons
add_array_of_wheres(b, columns, boolean, method) ==
  where_nested(b,
    [i \in 1..Len(columns) |->
       IF "where" = method
         THEN [NoCall EXCEPT !.op = "where", !.column = <<columns[i][1]>>,
                             !.oper = Str("="),
                             !.val = Str(columns[i][2].data)]
         ELSE [NoCall EXCEPT !.op = "where_column",
                             !.column = <<columns[i][1]>>,
                             !.oper = Str("="),
                             !.val = Str(columns[i][2].data)]],
    boolean)

\* array_merge of two keyed records: the entries of the first, each with the
\* value the second gives its key if it has one, then the entries of the
\* second under keys the first does not have
array_merge(a1, a2) ==
  LET keys1 == { a1[i][1] : i \in 1..Len(a1) }
      given(k) == { i \in 1..Len(a2) : a2[i][1] = k }
  IN [i \in 1..Len(a1) |->
        IF given(a1[i][1]) = {} THEN a1[i]
        ELSE a2[CHOOSE j \in given(a1[i][1]) : TRUE]]
     \o SelectSeq(a2, LAMBDA e : e[1] \notin keys1)

\* Builder::update_or_insert: where(attributes).exists(), then the insert of
\* the merged record when exists() returned false; `sent` is the statement
\* sent last, `ret` the value returned
update_or_insert(b, attributes, vals, results, inserted) ==
  LET w  == add_array_of_wheres(b, attributes, "and", "where")
      b2 == w.builder
      e  == exists(b2, results)
  IN IF w.error # NoError
       THEN [builder |-> b, error |-> w.error, sent |-> NoSend,
             ret |-> NoValue]
     ELSE IF e.ret = Bool(FALSE)
       THEN [builder |-> b2, error |-> NoError,
             sent |-> insert(b2, <<array_merge(attributes, vals)>>),
             ret |-> Bool(inserted)]
     ELSE [builder |-> b2, error |-> NoError, sent |-> e.sent,
           ret |-> Bool(FALSE)]

MaxNestedCalls == 2

\* callbacks of where_nested: none of them need add a where clause
NestedCallbacks ==
  Conditions
    \cup { <<>>, <<[NoCall EXCEPT !.op = "select", !.vals = <<Str(<<"id">>)>>]>> }

NestedWhereNested ==
  \E cb \in NestedCallbacks, boolean \in {"and", "or"} :
    Call([NoCall EXCEPT !.op = "where_nested", !.cb = cb,
                       !.boolean = boolean],
         where_nested(builder, cb, boolean), MaxNestedCalls,
         NoSend, NoValue, Owned)

\* the builders handed over as existing queries
ExistingQueries ==
  { new_query,
    where(select(new_query, <<Str(<<"id">>)>>), Age, Str(">"), Int32("21"),
          "and").builder,
    where_nested(new_query, <<[NoCall EXCEPT !.op = "where", !.column = Age,
                                 !.oper = Str(">"), !.val = Int32("21")]>>,
                 "and").builder }

NestedAddNestedWhereQuery ==
  \E query \in ExistingQueries, boolean \in {"and", "or"} :
    Call([NoCall EXCEPT !.op = "add_nested_where_query",
                       !.boolean = boolean, !.vals = <<query>>],
         Ok(add_nested_where_query(builder, query, boolean)), MaxNestedCalls,
         NoSend, NoValue, Owned)

NestedWhereInExistingQuery ==
  \E query \in ExistingQueries, isnot \in BOOLEAN :
    Call([NoCall EXCEPT !.op = "where_in_existing_query",
                       !.column = <<"id">>, !.flag = isnot,
                       !.vals = <<query>>],
         Ok(where_in_existing_query(builder, <<"id">>, query, "and", isnot)),
         MaxNestedCalls, NoSend, NoValue, Owned)

NestedJoin ==
  \/ \E x \in { [table |-> "contacts", type |-> "inner", w |-> FALSE],
                 [table |-> "orders", type |-> "left", w |-> TRUE] } :
       Do([NoCall EXCEPT !.op = "join", !.table = x.table, !.type = x.type,
                         !.flag = x.w],
          join(builder, x.table, Qualified, "=", "contacts.user_id", x.type,
               x.w), MaxNestedCalls)
  \/ \E cb \in JoinCallbacks \cup Conditions :
       Do([NoCall EXCEPT !.op = "join_callback", !.table = "phones",
                         !.type = "right", !.cb = cb],
          join_callback(builder, "phones", cb, "right"), MaxNestedCalls)

NestedCrossJoin ==
  \E first \in { <<>>, Qualified } :
    Do([NoCall EXCEPT !.op = "cross_join", !.table = "sizes",
                      !.type = "cross", !.column = first],
       cross_join(builder, "sizes", first, "=", "contacts.user_id"),
       MaxNestedCalls)

NestedWhere ==
  \/ WhereOver({Age}, {Str(">")}, {Int32("18")}, {"and"}, MaxNestedCalls)
  \/ Do([NoCall EXCEPT !.op = "from", !.table = "users"],
        Ok(from(builder, "users")), MaxNestedCalls)

\* update_or_insert over what the connection answers: the rows of the exists
\* select and the result of the insert
NestedUpdateOrInsert ==
  \E x \in { [attributes |-> <<<<"email", Str("a@x")>>>>,
               vals |-> <<<<"name", Str("Ann")>>>>],
             [attributes |-> <<<<"email", Str("a@x")>>>>,
               vals |-> <<<<"email", Str("b@x")>>, <<"name", Str("Ann")>>>>] },
     results \in { <<>>, <<[exists |-> Int32("1")]>>,
                   <<[exists |-> Int32("0")]>> },
     inserted \in BOOLEAN :
    LET r == update_or_insert(builder, x.attributes, x.vals, results, inserted)
    IN Call([NoCall EXCEPT !.op = "update_or_insert",
                          !.vals = <<x.attributes, x.vals, results>>,
                          !.flag = inserted],
            [builder |-> r.builder, error |-> r.error], MaxNestedCalls,
            r.sent, r.ret, Owned)

NextNested ==
  \/ NestedUpdateOrInsert
  \/ NestedWhereNested \/ NestedAddNestedWhereQuery
  \/ NestedWhereInExistingQuery \/ NestedJoin \/ NestedCrossJoin
  \/ NestedWhere

SpecNested == Init /\ [][NextNested]_vars

(***************************************************************************)
(* Sub-selects in the column list, over callbacks and over given queries   *)
(* with no column, one column and two columns.                             *)
(***************************************************************************)
MaxSelectCalls == 3

SubSelectCallbacks ==
  SubSelects
    \cup { <<>>,
           <<[NoCall EXCEPT !.op = "where", !.column = Age, !.oper = Str(">"),
                            !.val = Int32("21")]>>,
           <<[NoCall EXCEPT !.op = "select",
                            !.vals = <<Str(<<"id">>), Str(<<"name">>)>>],
             [NoCall EXCEPT !.op = "where", !.column = Age, !.oper = Str(">"),
                            !.val = Int32("21")]>> }

SelectSelectSub ==
  \E cb \in SubSelectCallbacks, outcome \in OutOfRangeOutcomes :
    Call([NoCall EXCEPT !.op = "select_sub", !.cb = cb, !.type = "total"],
         select_sub(builder, cb, "total", outcome), MaxSelectCalls,
         NoSend, NoValue, Owned)

SelectSelectSubQuery ==
  \E query \in { new_query,
                  where(select(new_query, <<Str(<<"id">>)>>), Age, Str(">"),
                        Int32("21"), "and").builder },
     outcome \in OutOfRangeOutcomes :
    Call([NoCall EXCEPT !.op = "select_sub_query", !.vals = <<query>>,
                       !.type = "total"],
         select_sub_query(builder, query, "total", outcome), MaxSelectCalls,
         NoSend, NoValue, NoAccess)

SelectColumns ==
  \/ Do([NoCall EXCEPT !.op = "select", !.vals = <<Str(<<"name">>)>>],
        Ok(select(builder, <<Str(<<"name">>)>>)), MaxSelectCalls)
  \/ Do([NoCall EXCEPT !.op = "select_raw", !.sql = <<"price", "*", "?">>,
                       !.vals = <<Int32("2")>>],
        Ok(select_raw(builder, <<"price", "*", "?">>, <<Int32("2")>>)),
        MaxSelectCalls)
  \/ WhereOver({Age}, {Str(">")}, {Int32("18")}, {"and"}, MaxSelectCalls)

NextSelect == SelectSelectSub \/ SelectSelectSubQuery \/ SelectColumns

SpecSelect == Init /\ [][NextSelect]_vars

(***************************************************************************)
(* The order specs: order_by over direction texts, order_byraw with and    *)
(* without bindings, before and after a union, and set_aggregate with and  *)
(* without group-by columns.                                               *)
(***************************************************************************)
MaxOrderCalls == 3

OrderOrderBy ==
  \E direction \in {"asc", "desc", "ASC", ""} :
    Do([NoCall EXCEPT !.op = "order_by", !.column = <<"name">>,
                      !.type = direction],
       Ok(order_by(builder, <<"name">>, direction)), MaxOrderCalls)

OrderOrderByRaw ==
  \E x \in { [sql |-> <<"rand()">>, vals |-> <<>>],
             [sql |-> <<"field", "(", "?", ")">>, vals |-> <<Int32("4")>>] } :
    Do([NoCall EXCEPT !.op = "order_byraw", !.sql = x.sql, !.vals = x.vals],
       Ok(order_byraw(builder, x.sql, x.vals)), MaxOrderCalls)

OrderUnion ==
  \E cb \in {c \in SubSelects : Len(c) = 1} :
    Do([NoCall EXCEPT !.op = "_union", !.cb = cb],
       _union(builder, cb, FALSE), MaxOrderCalls)

OrderGroupBy ==
  Do([NoCall EXCEPT !.op = "group_by", !.vals = <<Str("dept")>>],
     Ok(group_by(builder, <<Str("dept")>>)), MaxOrderCalls)

OrderSetAggregate ==
  Do([NoCall EXCEPT !.op = "set_aggregate", !.type = "count",
                    !.vals = <<Str(<<"*">>)>>],
     Ok(set_aggregate(builder, "count", <<Str(<<"*">>)>>)), MaxOrderCalls)

NextOrder ==
  \/ OrderOrderBy \/ OrderOrderByRaw \/ OrderUnion \/ OrderGroupBy
  \/ OrderSetAggregate

SpecOrder == Init /\ [][NextOrder]_vars

(***************************************************************************)
(* update and decrement: the statement and the bindings handed to the      *)
(* connection.                                                             *)
(***************************************************************************)
\* the text std::to_string gives for an amount
DigitTexts == <<"0", "1", "2", "3", "4", "5", "6", "7", "8", "9">>

RECURSIVE digits_text(_)
digits_text(ds) ==
  IF ds = <<>> THEN "" ELSE DigitTexts[Head(ds) + 1] \o digits_text(Tail(ds))

amount_text(amount) ==
  IF amount < 0 THEN "-" \o digits_text(to_string(-amount))
  ELSE digits_text(to_string(amount))

\* Grammar::compile_update: update <table> set <column> = <parameter>, ...
\* and the where list
RECURSIVE compile_update_sets(_)
compile_update_sets(vals) ==
  IF vals = <<>> THEN <<>>
  ELSE wrap_value(Head(vals)[1]) \o <<Tok("=")>> \o parameter(Head(vals)[2])
       \o (IF Len(vals) > 1 THEN <<Tok(",")>> ELSE <<>>)
       \o compile_update_sets(Tail(vals))

compile_update(b, vals) ==
  <<Tok("update")>> \o wrap_value(b.from_) \o <<Tok("set")>>
    \o compile_update_sets(vals) \o compile_wheres(b.wheres_, "where", 1)

\* Grammar::prepare_bindings_forupdate: the join bindings, the values, then
\* the other buckets but select
prepare_bindings_forupdate(bindings, values) ==
  bindings["join"] \o values \o bindings["where"] \o bindings["having"]
    \o bindings["order"] \o bindings["union"]

update(b, vals) ==
  Send("update", compile_update(b, vals),
       clean_bindings_expression(
         prepare_bindings_forupdate(b.bindings_, record_values(vals))),
       b)

\* decrement that names the column and writes its wrapped identifier
decrement_named_column(b, column, amount, extra) ==
  update(b, array_merge(
              <<<<column, raw("\"" \o column \o "\" - "
                                \o amount_text(amount))>>>>, extra))

\* Builder::decrement: the key is the literal "column" and the expression
\* the literal text "wrapped - " followed by the amount
decrement(b, column, amount, extra) ==
  update(b, array_merge(
              <<<<"column", raw("wrapped - " \o amount_text(amount))>>>>,
              extra))

MaxUpdateCalls == 3

UpdateFill ==
  \/ Do([NoCall EXCEPT !.op = "from", !.table = "posts"],
        Ok(from(builder, "posts")), MaxUpdateCalls)
  \/ WhereOver({<<"id">>}, {Str("=")}, {Int32("7")}, {"and"}, MaxUpdateCalls)
  \/ WhereOver({Age}, {Str(">")}, {raw("now()")}, {"or"}, MaxUpdateCalls)
  \/ Do([NoCall EXCEPT !.op = "join", !.table = "users", !.flag = TRUE],
        join(builder, "users", Qualified, "=", "posts.user_id", "inner",
             TRUE), MaxUpdateCalls)

UpdateUpdate ==
  \E vals \in { <<<<"title", Str("new")>>>>,
                 <<<<"title", Str("new")>>, <<"votes", raw("votes + 1")>>>> } :
    Call([NoCall EXCEPT !.op = "update", !.vals = vals], Ok(builder),
         MaxUpdateCalls, update(builder, vals), Int32("1"), NoAccess)

UpdateDecrement ==
  \E amount \in {1, 12},
     extra \in { <<>>, <<<<"updated_at", Str("today")>>>>,
                 <<<<"updated_at", raw("now()")>>>> } :
    Call([NoCall EXCEPT !.op = "decrement", !.type = "votes", !.n = amount,
                       !.vals = extra],
         Ok(builder), MaxUpdateCalls,
         decrement(builder, "votes", amount, extra), Int32("1"), NoAccess)

NextUpdate == UpdateFill \/ UpdateUpdate \/ UpdateDecrement

SpecUpdate == Init /\ [][NextUpdate]_vars

(***************************************************************************)
(* Properties.                                                             *)
(***************************************************************************)
Bucket(b, k) == b.bindings_[k]

LastWhere == builder.wheres_[Len(builder.wheres_)]

\* the builder with its where list and its where bucket put back as they were
\* before the last call: equal to prev when the call touched nothing else
WhereRestored ==
  [builder EXCEPT !.wheres_ = prev.wheres_,
                  !.bindings_["where"] = prev.bindings_["where"]]

IsPrefix(s, t) == Len(s) <= Len(t) /\ SubSeq(t, 1, Len(s)) = s

\* C1: in every reachable state the flattened bindings are as many as the
\* placeholders of the select compiled from that state, and the i-th binding
\* is the value the i-th placeholder stands for.
C1_BindingsMatchPlaceholders ==
  LET bs == get_bindings(builder)
      ps == Placeholders(builder)
  IN /\ Len(bs) = Len(ps)
     /\ \A i \in 1..Len(ps) : ps[i] = Unknown \/ ps[i] = bs[i]

\* C2: get_bindings() is the concatenation of the six buckets in the order
\* select, join, where, having, order, union, each in its insertion order.
C2_GetBindingsConcatenatesBuckets ==
  get_bindings(builder) =
    Bucket(builder, "select") \o Bucket(builder, "join")
      \o Bucket(builder, "where") \o Bucket(builder, "having")
      \o Bucket(builder, "order") \o Bucket(builder, "union")

\* C2 witness: values in four buckets, two of them out of alphabetical order
C2_Witness ==
  /\ Bucket(builder, "select") # <<>>
  /\ Bucket(builder, "where") # <<>>
  /\ Bucket(builder, "order") # <<>>
  /\ Len(get_bindings(builder)) = 3

\* C3: no binding bucket ever holds a raw-expression value.
C3_NoRawValueInBuckets ==
  \A k \in DOMAIN builder.bindings_ :
    \A i \in 1..Len(builder.bindings_[k]) :
      ~is_expression(builder.bindings_[k][i])

\* C4: an order_by, order_byraw, limit or offset call made while a union
\* exists changes only the union slot and leaves the base orders, limit and
\* offset as they were; made while no union exists it changes only the base
\* slot and leaves the union slots as they were.
C4_UnionRouting ==
  LET u == prev.unions_ # <<>>
      baseSame  == /\ builder.orders_ = prev.orders_
                   /\ builder.limit_ = prev.limit_
                   /\ builder.offset_ = prev.offset_
      unionSame == /\ builder.union_orders_ = prev.union_orders_
                   /\ builder.union_limit_ = prev.union_limit_
                   /\ builder.union_offset_ = prev.union_offset_
  IN last.op \in {"order_by", "order_byraw", "limit", "offset"} =>
       /\ IF u THEN baseSame ELSE unionSame
       /\ last.op \in {"order_by", "order_byraw"} =>
            IF u THEN Len(builder.union_orders_) = Len(prev.union_orders_) + 1
                 ELSE Len(builder.orders_) = Len(prev.orders_) + 1
       /\ (last.op = "limit" /\ last.n >= 0) =>
            IF u THEN builder.union_limit_ = last.n
                 ELSE builder.limit_ = last.n
       /\ last.op = "offset" =>
            IF u THEN builder.union_offset_ = max(0, last.n)
                 ELSE builder.offset_ = max(0, last.n)

\* C4 witness: a union, then order_by("name"), then limit(5): both recorded
\* on the union slots, the base slots still empty
C4_Witness ==
  /\ Len(builder.unions_) = 1
  /\ builder.union_orders_ = <<[column |-> <<"name">>, direction |-> "asc"]>>
  /\ builder.union_limit_ = 5
  /\ builder.orders_ = <<>>
  /\ builder.limit_ = -1
  /\ last.op = "limit"

WhereFamily ==
  {"where", "where_closure", "where_column", "where_raw", "where_in",
   "where_null", "where_between", "where_date", "where_sub", "where_insub"}

\* C10: a where-family call that returns appends exactly one clause to the
\* where list, keeps the earlier clauses in their order, appends values only
\* to the where bucket and changes nothing else of the builder.
C10_WhereAppendsOneClause ==
  (last.op \in WhereFamily /\ err = NoError) =>
    /\ Len(builder.wheres_) = Len(prev.wheres_) + 1
    /\ IsPrefix(prev.wheres_, builder.wheres_)
    /\ IsPrefix(Bucket(prev, "where"), Bucket(builder, "where"))
    /\ WhereRestored = prev

\* C10 witness: where("age", ">", 18) then where("active", "=", true)
C10_Witness ==
  /\ Len(builder.wheres_) = 2
  /\ builder.wheres_[1].type = "basic" /\ builder.wheres_[1].column = Age
  /\ builder.wheres_[2].type = "basic"
  /\ builder.wheres_[2].column = <<"active">>
  /\ Bucket(builder, "where") = <<Int32("18"), Bool(TRUE)>>
  /\ get_bindings(builder) = <<Int32("18"), Bool(TRUE)>>

\* the value of a two-argument call where(column, v): v arrives in the
\* operator's place, the value argument is left at its default
TwoArgumentCall == last.op = "where" /\ last.val = DefaultVal /\ last.boolean = "and"

BasicClause(column, oper, val, boolean) ==
  [type |-> "basic", column |-> column, operator |-> oper, value |-> val,
   boolean |-> boolean]

\* C5: a predicate call (where, where_date/day/month/year, having) whose
\* value is empty and whose operator is a baseline operator other than
\* =, <>, != raises 'Illegal operator and val combination', with either
\* boolean connector.
C5_EmptyValueWithOperatorRaises ==
  ( /\ last.op \in {"where", "where_date", "having"}
    /\ empty(last.val)
    /\ last.oper.data \in BaselineOperators \ {"=", "<>", "!="} )
  => err = IllegalOperatorAndValue

C7_EmptyValueBecomesNullClause ==
  LET threeArg == /\ last.oper.data \in {"=", "<>", "!="}
                  /\ empty(last.val)
      twoArg   == empty(last.oper) /\ last.val = DefaultVal
      isnot    == threeArg /\ last.oper.data # "="
  IN (last.op = "where" /\ (threeArg \/ twoArg)) =>
       /\ err = NoError
       /\ builder.wheres_ =
            Append(prev.wheres_,
                   [type |-> IF isnot THEN "notnull" ELSE "null",
                    column |-> last.column, boolean |-> last.boolean])
       /\ builder.bindings_ = prev.bindings_

\* the boolean a where call compares the column with, Null when it has none:
\* the value argument, or the operator argument in the short forms
BooleanOf(c) ==
  IF c.op = "where" /\ c.val.type = kVariableTypeBool THEN c.val
  ELSE IF c.op \in {"where", "where_closure"}
          /\ c.oper.type = kVariableTypeBool THEN c.oper
  ELSE Null

\* C8: a where call (either overload) that compares a column whose name
\* contains "->" with a boolean stores the raw expression "true" or "false"
\* in the basic clause and binds nothing; on a column without "->" it stores
\* the boolean itself and appends it to the where bucket.
C8_JsonBooleanIsInlined ==
  (err = NoError /\ BooleanOf(last) # Null) =>
    /\ Len(builder.wheres_) = Len(prev.wheres_) + 1
    /\ LastWhere.type = "basic"
    /\ LastWhere.column = last.column
    /\ IF contains(last.column, Arrow)
         THEN /\ is_expression(LastWhere.value)
              /\ LastWhere.value.data =
                   (IF BooleanOf(last) = Bool(TRUE) THEN "true" ELSE "false")
              /\ Bucket(builder, "where") = Bucket(prev, "where")
         ELSE /\ LastWhere.value = BooleanOf(last)
              /\ Bucket(builder, "where") =
                   Append(Bucket(prev, "where"), BooleanOf(last))

\* C8 witness: the closure overload on a JSON column after the value
\* overload on a plain column
C8_Witness ==
  /\ last.op = "where_closure" /\ last.column = JsonColumn
  /\ last.oper = Bool(FALSE)
  /\ Len(builder.wheres_) = 2
  /\ builder.wheres_[1].type = "basic"
  /\ builder.wheres_[1].value = Bool(TRUE)
  /\ LastWhere.type = "basic"
  /\ LastWhere.value.data = "false"
  /\ Bucket(builder, "where") = <<Bool(TRUE)>>

HasOperator(clause) == "operator" \in DOMAIN clause

\* C9: the operator of every clause the predicate mutators appended is a
\* baseline operator or one of the grammar's.
C9_StoredOperatorsAreLegal ==
  /\ \A i \in 1..Len(builder.wheres_) :
       HasOperator(builder.wheres_[i]) =>
         builder.wheres_[i].operator \in BaselineOperators \cup GrammarOperators
  /\ \A i \in 1..Len(builder.havings_) :
       HasOperator(builder.havings_[i]) =>
         builder.havings_[i].operator \in BaselineOperators \cup GrammarOperators

(***************************************************************************)
(* C11: where_exists appends exactly one exists clause (notexists when     *)
(* isnot) that holds the sub-builder the callback populated, appends that  *)
(* sub-builder's flattened bindings to the where bucket, and reads the     *)
(* sub-builder only through a handle that still owns it.                   *)
(***************************************************************************)
C11_WhereExistsReadsOwnedSubBuilder ==
  last.op = "where_exists" =>
    /\ access = Owned
    /\ err = NoError
    /\ Len(builder.wheres_) = Len(prev.wheres_) + 1
    /\ LastWhere.type = (IF last.flag THEN "notexists" ELSE "exists")
    /\ LastWhere.query = RunCallback(new_query, last.cb).builder
    /\ Bucket(builder, "where")
         = Bucket(prev, "where") \o get_bindings(LastWhere.query)

(***************************************************************************)
(* C12: every execution entry point hands the connection a text and a      *)
(* binding sequence computed from one builder state, the sequence being    *)
(* the whole flattened one: get and exists pass get_bindings(), and         *)
(* deleted(id) passes bindings that hold the earlier where bindings and    *)
(* then the id its added where clause bound.                               *)
(***************************************************************************)
C12_ExecutionPassesFlattenedBindings ==
  /\ last.op \in {"get", "exists"} =>
       /\ sent.bindings = get_bindings(sent.state)
       /\ sent.bindings = get_bindings(builder)
  /\ (last.op = "deleted" /\ last.val.data # "") =>
       /\ Bucket(builder, "where") = Append(Bucket(prev, "where"), last.val)
       /\ contains(sent.bindings, Bucket(builder, "where"))

\* the values of every record of a batch, record by record, in key order
RECURSIVE BatchValues(_)
BatchValues(vals) ==
  IF vals = <<>> THEN <<>>
  ELSE record_values(Head(vals)) \o BatchValues(Tail(vals))

(***************************************************************************)
(* C13: insert of n >= 1 records passes the connection one binding for     *)
(* each value of each record that is not raw: the values of the first      *)
(* record in key order, then those of the second, and so on, one for each  *)
(* placeholder of the compiled insert.                                     *)
(***************************************************************************)
C13_InsertBindsEveryRecord ==
  (last.op = "insert" /\ last.vals # <<>>) =>
    /\ sent.op = "insert"
    /\ sent.bindings = clean_bindings_expression(BatchValues(last.vals))
    /\ Len(sent.bindings)
         = Len(SelectSeq(sent.sql, LAMBDA x : x.t = "mark"))

\* a value that counts as true: neither empty nor zero nor false
Truthy(v) == v.data \notin {"", "0", "false"}

(***************************************************************************)
(* C14: exists() sends the EXISTS-wrapped compilation of the current       *)
(* state with get_bindings(), and returns true exactly when the result has *)
(* a first row whose `exists` column holds a true value: false when there  *)
(* is no row, false when that column holds 0 or false.                     *)
(***************************************************************************)
C14_ExistsReturnsFirstRowFlag ==
  last.op = "exists" =>
    /\ sent = Send("select", compile_exists(builder), get_bindings(builder),
                   builder)
    /\ ret = Bool(/\ last.vals # <<>>
                  /\ "exists" \in DOMAIN last.vals[1]
                  /\ Truthy(last.vals[1]["exists"]))

(***************************************************************************)
(* C15: after clear(), whatever calls came before it, every field of the   *)
(* query state (from and the operator set included) and every binding      *)
(* bucket is as in a freshly constructed builder.                          *)
(***************************************************************************)
C15_ClearRestoresFreshBuilder ==
  last.op = "clear" => builder = Builder

\* the aggregate set by the last call, an aggregate(function, columns)
LastAggregate ==
  [function |-> last.type, columns |-> implode(", ", last.column)]

\* the `aggregate` column of the first row of the rows the last call got
FirstRowAggregate ==
  IF last.vals # <<>> /\ "aggregate" \in DOMAIN last.vals[1]
    THEN last.vals[1]["aggregate"] ELSE Null

(***************************************************************************)
(* C16, as stated: aggregate(function, columns) runs one select on a       *)
(* separate builder whose column list and select bucket are empty and      *)
(* whose aggregate is {function, columns joined by ", "}, returns the      *)
(* `aggregate` column of the first row, and leaves the calling builder as  *)
(* it was.                                                                 *)
(***************************************************************************)
C16_AggregateSelectsWithEmptyColumnList ==
  last.op = "aggregate" =>
    /\ sent.op = "select"
    /\ sent.state.columns_ = <<>>
    /\ sent.state.bindings_["select"] = <<>>
    /\ sent.state.aggregate_ = LastAggregate
    /\ ret = FirstRowAggregate
    /\ builder = prev

(***************************************************************************)
(* C16, amended: the separate builder's select bucket is empty and its     *)
(* aggregate is {function, columns joined by ", "}; its column list is     *)
(* empty when get is entered, and holds the aggregate's columns while the  *)
(* select runs; the value returned is the `aggregate` column of the first  *)
(* row and the calling builder is left as it was.                          *)
(***************************************************************************)
C16_AggregateSelectsOnSeparateBuilder ==
  last.op = "aggregate" =>
    /\ sent.op = "select"
    /\ sent.state.columns_ = last.column
    /\ sent.state.bindings_["select"] = <<>>
    /\ sent.state.aggregate_ = LastAggregate
    /\ sent.sql = compile_select(sent.state)
    /\ sent.bindings = get_bindings(sent.state)
    /\ ret = FirstRowAggregate
    /\ builder = prev

C16_Witness ==
  /\ last.op = "aggregate"
  /\ last.type = "count"
  /\ last.column = <<Str(<<"*">>)>>
  /\ sent.state.columns_ = <<Str(<<"*">>)>>
  /\ ret = Text(<<"4", "2">>)
  /\ builder.wheres_ # <<>>
  /\ Bucket(builder, "select") # <<>>
  /\ builder.aggregate_ = <<>>

(***************************************************************************)
(* C17: aggregate("count", ["*"]) on a query whose select returns no row   *)
(* returns the value 0 and raises no error.                                *)
(***************************************************************************)
C17_CountOfNoRowsIsZero ==
  (/\ last.op = "aggregate"
   /\ last.type = "count"
   /\ last.column = <<Str(<<"*">>)>>
   /\ last.vals = <<>>) =>
    /\ err = NoError
    /\ ret.type = kVariableTypeInt32
    /\ ret.data = <<"0">>

(***************************************************************************)
(* C18: numeric_aggregate returns 0 when the aggregate result is empty;    *)
(* otherwise it returns the result unchanged when it is not text, and for  *)
(* a text a real number if the text has a decimal point and an integer if  *)
(* it has none.                                                            *)
(***************************************************************************)
C18_NumericAggregateCoercesText ==
  last.op = "numeric_aggregate" =>
    LET result == FirstRowAggregate
    IN IF empty(result)
         THEN ret.type = kVariableTypeInt32 /\ ret.data = <<"0">>
       ELSE IF result.type # kVariableTypeString THEN ret = result
       ELSE IF contains(result.data, <<".">>)
         THEN ret.type = kVariableTypeDouble
         ELSE ret.type = kVariableTypeInt32

ReadOperations == {"to_sql", "get_bindings", "get"}

(***************************************************************************)
(* C19: to_sql(), get_bindings() and get(columns) leave the builder as it  *)
(* was (get puts back the column list it replaces for the select), so the  *)
(* text and the bindings a read produced are those a compilation of the    *)
(* builder it left produces again.                                         *)
(***************************************************************************)
C19_ReadsLeaveBuilderUnchanged ==
  last.op \in ReadOperations =>
    /\ builder = prev
    /\ last.op = "to_sql" => ret = to_sql(builder)
    /\ last.op = "get_bindings" => ret = get_bindings(builder)
    /\ last.op = "get" =>
         /\ sent.bindings = get_bindings(builder)
         /\ sent.sql = compile_select(
                         IF builder.columns_ = <<>>
                           THEN [builder EXCEPT !.columns_ = last.vals]
                           ELSE builder)

C19_Witness ==
  /\ last.op = "get"
  /\ last.vals = <<Str(<<"name">>)>>
  /\ sent.state.columns_ = last.vals
  /\ builder.columns_ = <<>>
  /\ builder.wheres_ # <<>>
  /\ sent.bindings = <<Int32("18")>>

CallbackOperations ==
  {"select_sub", "join_callback", "where_sub", "where_insub", "where_exists",
   "_union"}

\* the bucket a callback-taking mutator copies the sub-builder's bindings to
BucketOf(op) ==
  CASE op = "select_sub" -> "select"
    [] op = "join_callback" -> "join"
    [] op = "_union" -> "union"
    [] OTHER -> "where"

\* the sub-builder as one run of the last call's callback on a new query
\* leaves it
CallbackResult == RunCallback(new_query, last.cb).builder

\* the sub-builder the clause appended by the last call holds
EmbeddedQuery ==
  CASE last.op = "join_callback" -> builder.joins_[Len(builder.joins_)].query
    [] last.op = "_union" -> builder.unions_[Len(builder.unions_)].query
    [] OTHER -> LastWhere.query

(***************************************************************************)
(* C20: a mutator that takes a callback (select_sub, join, where_sub,      *)
(* where_insub, where_exists, _union) runs it exactly once, on a new       *)
(* sub-builder, to its end before it appends the clause and copies the     *)
(* bindings: when the mutator returns, the clause holds the sub-builder as *)
(* that one run left it and the bucket of the clause kind has received     *)
(* every binding the callback added.                                       *)
(***************************************************************************)
C20_CallbackRunsOnceBeforeEmbedding ==
  last.op \in CallbackOperations =>
    /\ err = NoError
    /\ Bucket(builder, BucketOf(last.op))
         = Bucket(prev, BucketOf(last.op)) \o get_bindings(CallbackResult)
    /\ last.op # "select_sub" => EmbeddedQuery = CallbackResult
    /\ last.op = "select_sub" =>
         Len(builder.columns_) = Len(prev.columns_) + 1

BindingMutators == {"set_bindings", "add_bindings", "add_binding"}

(***************************************************************************)
(* C21: set_bindings, add_bindings and add_binding called with a bucket    *)
(* name outside {select, join, where, having, order, union} raise the      *)
(* usage error 'Invalid binding type' and leave the binding store as it    *)
(* was: no bucket is created and none is modified.                         *)
(***************************************************************************)
C21_UnknownBucketIsRejected ==
  (/\ last.op \in BindingMutators
   /\ \A i \in 1..Len(DB_BINDING_KEYS) : last.type # DB_BINDING_KEYS[i]) =>
    /\ err = InvalidBindingType(last.type)
    /\ builder.bindings_ = prev.bindings_

SixBuckets == { DB_BINDING_KEYS[i] : i \in 1..Len(DB_BINDING_KEYS) }

Named(names) == { names[i] : i \in 1..Len(names) }

(***************************************************************************)
(* C28: the set of bucket names of the binding store is always exactly     *)
(* {select, join, where, having, order, union}; no operation, among them   *)
(* clean_bindings with arbitrary names, merge_bindings, set_bindings and   *)
(* get_bindings, adds or removes a bucket, and clean_bindings(names)       *)
(* empties exactly the named buckets.                                      *)
(***************************************************************************)
C28_BucketNamesAreFixed ==
  /\ DOMAIN builder.bindings_ = SixBuckets
  /\ last.op = "clean_bindings" =>
       \A k \in SixBuckets :
         builder.bindings_[k] =
           IF k \in Named(last.vals) THEN <<>> ELSE prev.bindings_[k]

(***************************************************************************)
(* C22: where_in appends exactly one in clause (not-in when negated) that  *)
(* carries the values in the given order, and binds exactly the non-raw    *)
(* values in their order in the where bucket; with an empty list the       *)
(* clause is still appended, nothing is bound, and the clause compiles to  *)
(* a static false (in) or a static true (not-in).                          *)
(***************************************************************************)
C22_WhereInCarriesValuesInOrder ==
  (last.op = "where_in" /\ err = NoError) =>
    /\ Len(builder.wheres_) = Len(prev.wheres_) + 1
    /\ IsPrefix(prev.wheres_, builder.wheres_)
    /\ LET w == builder.wheres_[Len(builder.wheres_)]
       IN /\ w.type = (IF last.flag THEN "notin" ELSE "in")
          /\ w.column = last.column
          /\ w.values = last.vals
          /\ last.vals = <<>> =>
               compile_where(w) = (IF last.flag THEN Toks(<<"1", "=", "1">>)
                                   ELSE Toks(<<"0", "=", "1">>))
    /\ Bucket(builder, "where")
         = Bucket(prev, "where")
           \o SelectSeq(last.vals, LAMBDA v : ~is_expression(v))

(***************************************************************************)
(* C23: limit, offset, union limit and union offset are each -1 (absent)   *)
(* or a non-negative number.  limit with a negative argument changes       *)
(* nothing; offset with a negative argument stores 0; no other operation   *)
(* stores a negative number other than -1.                                 *)
(***************************************************************************)
C23_LimitsAreAbsentOrNonNegative ==
  /\ builder.limit_ >= -1 /\ builder.offset_ >= -1
  /\ builder.union_limit_ >= -1 /\ builder.union_offset_ >= -1
  /\ (last.op = "limit" /\ last.n < 0) => builder = prev
  /\ (last.op = "offset" /\ last.n < 0) =>
       IF prev.unions_ = <<>>
         THEN builder = [prev EXCEPT !.offset_ = 0]
         ELSE builder = [prev EXCEPT !.union_offset_ = 0]

\* C23 witness: a negative offset after a union stored 0 as the union offset,
\* and the limit set before the union is still there
C23_Witness ==
  /\ last.op = "offset" /\ last.n = -3
  /\ prev.unions_ # <<>> /\ prev.union_offset_ = -1
  /\ builder.union_offset_ = 0 /\ builder.offset_ = -1
  /\ builder.limit_ = 5

\* the member a name given to clean stands for: the name with "_" appended
Member(name) == name \o "_"

(***************************************************************************)
(* C27: clean(name) resets exactly the member the name stands for to the   *)
(* value it has in a fresh builder (union_limit and union_offset to -1,    *)
(* lock to the absent value) and leaves every other member unchanged; a    *)
(* name that stands for no member changes nothing.                         *)
(***************************************************************************)
C27_CleanResetsNamedMember ==
  last.op = "clean" =>
    IF last.type \in CleanNames
      THEN builder
             = [prev EXCEPT ![Member(last.type)] = Builder[Member(last.type)]]
      ELSE builder = prev

\* the clause list and the bucket a basic predicate call writes to
PredicateList(b, op) == IF op = "having" THEN b.havings_ ELSE b.wheres_

RendersPlaceholder(value) ==
  Len(parameter(value)) = 1 /\ parameter(value)[1] = Mark(value)

(***************************************************************************)
(* C24: the grammar renders a value as the placeholder "?" exactly when    *)
(* the value is not raw, and renders a raw value as its text; for every    *)
(* basic where or having clause the builder appended the clause's value to *)
(* the bucket exactly when the grammar renders that value as "?".          *)
(***************************************************************************)
C24_BindingIffPlaceholder ==
  (/\ last.op \in {"where", "having"} /\ err = NoError
   /\ Len(PredicateList(builder, last.op))
        = Len(PredicateList(prev, last.op)) + 1) =>
    LET list == PredicateList(builder, last.op)
        w    == list[Len(list)]
    IN w.type = "basic" =>
         /\ RendersPlaceholder(w.value) <=> ~is_expression(w.value)
         /\ is_expression(w.value) =>
              parameter(w.value) = <<Tok(w.value.data)>>
         /\ IF RendersPlaceholder(w.value)
              THEN builder.bindings_
                     = [prev.bindings_ EXCEPT ![last.op] = Append(@, w.value)]
              ELSE builder.bindings_ = prev.bindings_

\* C24 witness: a having clause on a raw value bound nothing, after a where
\* clause on a plain value bound it
C24_Witness ==
  /\ last.op = "having" /\ last.val = raw("avg")
  /\ Len(builder.havings_) = 1 /\ builder.havings_[1].type = "basic"
  /\ builder.havings_[1].value = raw("avg")
  /\ Bucket(builder, "having") = <<>>
  /\ Len(builder.wheres_) = 1 /\ builder.wheres_[1].type = "basic"
  /\ builder.wheres_[1].value = Int32("18")
  /\ Bucket(builder, "where") = <<Int32("18")>>

\* the sub-builder the last nested call handed to add_nested_where_query
NestedQuery ==
  IF last.op = "where_nested"
    THEN RunCallback(for_nested_where(prev), last.cb).builder
    ELSE last.vals[1]

\* a compiled group that has something between its parentheses
NonEmptyGroup(items) ==
  /\ Len(items) > 2
  /\ items[1] = Tok("(") /\ items[Len(items)] = Tok(")")
  /\ items[2] # Tok(")")

(***************************************************************************)
(* C30: add_nested_where_query appends one nested clause that owns the     *)
(* sub-builder, and the sub-builder's flattened bindings to the where      *)
(* bucket, if and only if the sub-builder has at least one where clause;   *)
(* otherwise the parent's where list and buckets are unchanged.  A nested  *)
(* group therefore never compiles to empty parentheses.                    *)
(***************************************************************************)
C30_NestedGroupOnlyWhenNonEmpty ==
  /\ (last.op \in {"where_nested", "add_nested_where_query"}
        /\ err = NoError) =>
       IF NestedQuery.wheres_ # <<>>
         THEN builder
                = [prev EXCEPT
                     !.wheres_ = Append(@, [type |-> "nested",
                                            boolean |-> last.boolean,
                                            query |-> NestedQuery]),
                     !.bindings_["where"] = @ \o get_bindings(NestedQuery)]
         ELSE builder = prev
  /\ \A i \in 1..Len(builder.wheres_) :
       builder.wheres_[i].type = "nested" =>
         NonEmptyGroup(compile_where(builder.wheres_[i]))

\* C30 witness: after where("age", ">", 18), a nested group of two or-joined
\* predicates is the second clause, and its two bindings follow 18
C30_Witness ==
  /\ last.op = "where_nested" /\ last.boolean = "or"
  /\ Len(builder.wheres_) = 2 /\ builder.wheres_[2].type = "nested"
  /\ Len(builder.wheres_[2].query.wheres_) = 2
  /\ Bucket(builder, "where") = <<Int32("18"), Str("home"), Int32("7")>>
  /\ compile_where(builder.wheres_[2])
       = <<Tok("(")>> \o wrap(<<"kind">>) \o <<Tok("="), Mark(Str("home")),
            Tok("or"), Tok("x"), Tok("="), Mark(Unknown), Tok(")")>>

(***************************************************************************)
(* C26: where_in_existing_query(column, query, boolean, isnot) appends one *)
(* insub clause (not_insub when isnot) whose embedded sub-query carries    *)
(* the clauses of the given query, and appends the given query's flattened *)
(* bindings to the where bucket.                                           *)
(***************************************************************************)
C26_ExistingQueryIsEmbedded ==
  (last.op = "where_in_existing_query" /\ err = NoError) =>
    LET query == last.vals[1]
    IN builder
         = [prev EXCEPT
              !.wheres_ = Append(@,
                [type |-> IF last.flag THEN "not_insub" ELSE "insub",
                 column |-> last.column, boolean |-> "and",
                 query |-> query]),
              !.bindings_["where"] = @ \o get_bindings(query)]

JoinOperations == {"join", "join_callback", "cross_join"}

\* the conditions the last join call put on its join clause
JoinConditions ==
  CASE last.op = "join_callback" -> RunCallback(new_query, last.cb).builder
    [] last.op = "join" /\ last.flag
         -> where(new_query, Qualified, Str("="), Str("contacts.user_id"),
                  "and").builder
    [] last.op = "cross_join" /\ last.column = <<>> -> new_query
    [] OTHER -> on(new_query, Qualified, "=", "contacts.user_id")

(***************************************************************************)
(* C29: every join call (callback form, column form with _where true or    *)
(* false, cross_join with a first column) appends exactly one join clause  *)
(* with the given table and join type at the end of the join list and      *)
(* appends that clause's flattened bindings at the end of the join bucket, *)
(* so both follow call order; cross_join with an empty first column        *)
(* appends one cross join clause with no conditions and adds no bindings.  *)
(***************************************************************************)
C29_JoinAppendsClauseAndBindings ==
  (last.op \in JoinOperations /\ err = NoError) =>
    /\ builder
         = [prev EXCEPT
              !.joins_ = Append(@, [table |-> last.table, type |-> last.type,
                                    query |-> JoinConditions]),
              !.bindings_["join"] = @ \o get_bindings(JoinConditions)]
    /\ (last.op = "cross_join" /\ last.column = <<>>) =>
         /\ builder.joins_[Len(builder.joins_)].query.wheres_ = <<>>
         /\ builder.bindings_ = prev.bindings_

\* C29 witness: a column join with _where after a callback join: two clauses
\* in call order, and the bindings of the first before those of the second
C29_Witness ==
  /\ last.op = "join" /\ last.flag
  /\ Len(builder.joins_) = 2
  /\ builder.joins_[1].table = "phones" /\ builder.joins_[1].type = "right"
  /\ builder.joins_[2].table = "orders" /\ builder.joins_[2].type = "left"
  /\ Bucket(builder, "join") = <<Str("home"), Str("contacts.user_id")>>

\* the connection's answer to the exists select says a record matches
RecordMatches(results) ==
  /\ results # <<>>
  /\ "exists" \in DOMAIN results[1]
  /\ Truthy(results[1]["exists"])

(***************************************************************************)
(* C25: update_or_insert(attributes, vals) inserts one record made of      *)
(* attributes merged with vals when no record matches the attributes, and  *)
(* updates the matching record with vals when one exists; in both cases it *)
(* returns the success of the write it performed.                          *)
(***************************************************************************)
C25_UpdateOrInsertWrites ==
  (last.op = "update_or_insert" /\ err = NoError) =>
    LET attributes == last.vals[1]
        vals       == last.vals[2]
    IN IF RecordMatches(last.vals[3])
         THEN sent.op = "update"
         ELSE /\ sent = insert(builder, <<array_merge(attributes, vals)>>)
              /\ sent.op = "insert"
              /\ ret = Bool(last.flag)

\* the sub-query the last select_sub call was given, or built by its callback
SubQuery ==
  IF last.op = "select_sub" THEN RunCallback(new_query, last.cb).builder
  ELSE last.vals[1]

FirstColumnOnly(q) ==
  IF q.columns_ = <<>> THEN q ELSE [q EXCEPT !.columns_ = <<q.columns_[1]>>]

AsAlias(as) == LET w == wrap_value(as) IN <<"as">> \o [i \in 1..Len(w) |-> w[i].s]

(***************************************************************************)
(* C31: select_sub(query, alias) appends exactly one select column of the  *)
(* form "(<sub-query SQL>) as <wrapped alias>" and appends the sub-query's *)
(* flattened bindings to the select bucket; it is defined for every        *)
(* sub-query, one with an empty column list included, and the sub-query is *)
(* compiled with only its first column.                                    *)
(***************************************************************************)
C31_SelectSubIsTotal ==
  last.op \in {"select_sub", "select_sub_query"} =>
    LET q == FirstColumnOnly(SubQuery)
    IN /\ err = NoError
       /\ builder
            = [prev EXCEPT
                 !.columns_ = Append(@, Str(<<"(">> \o to_sql(q) \o <<")">>
                                            \o AsAlias(last.type))),
                 !.bindings_["select"] = @ \o get_bindings(q)]

\* the order specs of the base query and of the union, in that order
AllOrders(b) == b.orders_ \o b.union_orders_

IsRawOrder(o) == "sql" \in DOMAIN o

(***************************************************************************)
(* C33: every order spec stored by order_by that is not raw has a          *)
(* direction that is exactly "asc" or "desc": the direction "asc" is       *)
(* stored as asc, every other direction text as desc.                      *)
(***************************************************************************)
C33_DirectionIsAscOrDesc ==
  /\ \A i \in 1..Len(AllOrders(builder)) :
       ~IsRawOrder(AllOrders(builder)[i]) =>
         AllOrders(builder)[i].direction \in {"asc", "desc"}
  /\ last.op = "order_by" =>
       LET list == IF prev.unions_ = <<>> THEN builder.orders_
                   ELSE builder.union_orders_
       IN /\ list # <<>>
          /\ list[Len(list)]
               = [column |-> last.column,
                  direction |-> IF last.type = "asc" THEN "asc" ELSE "desc"]

\* C33 witness: order_by with "ASC" after a union and an order_by with "asc":
\* the union order is stored as desc
C33_Witness ==
  /\ last.op = "order_by" /\ last.type = "ASC"
  /\ builder.unions_ # <<>>
  /\ Len(builder.orders_) = 1 /\ ~IsRawOrder(builder.orders_[1])
  /\ builder.orders_[1].direction = "asc"
  /\ Len(builder.union_orders_) = 1
  /\ builder.union_orders_[1].direction = "desc"

\* the placeholders of the order specs of the base query and of the union
OrderPlaceholders(b) ==
  SelectSeq(compile_orders(b.orders_) \o compile_orders(b.union_orders_),
            LAMBDA x : x.t = "mark")

(***************************************************************************)
(* C32: set_aggregate(function, columns) on a builder with no group-by     *)
(* columns removes every order spec and empties the order bucket, and on a *)
(* builder with group-by columns leaves the orders and the order bucket    *)
(* unchanged; in both cases the order placeholders that remain (base and   *)
(* union orders) and the order bucket stay in one-to-one correspondence.   *)
(***************************************************************************)
C32_SetAggregateKeepsOrderCorrespondence ==
  last.op = "set_aggregate" =>
    /\ IF prev.groups_ = <<>>
         THEN AllOrders(builder) = <<>> /\ Bucket(builder, "order") = <<>>
         ELSE /\ builder.orders_ = prev.orders_
              /\ builder.union_orders_ = prev.union_orders_
              /\ Bucket(builder, "order") = Bucket(prev, "order")
    /\ Len(OrderPlaceholders(builder)) = Len(Bucket(builder, "order"))

\* the wrapped identifier of a column as one text
WrappedText(column) ==
  LET w == wrap_value(column) IN w[1].s \o w[2].s \o w[3].s

(***************************************************************************)
(* C34: decrement(column, amount, extra) issues one update that sets the   *)
(* named column to its own wrapped identifier minus the amount, as a raw   *)
(* expression, together with the extra columns, and passes no binding for  *)
(* the decremented column.                                                 *)
(***************************************************************************)
C34_DecrementSetsNamedColumn ==
  last.op = "decrement" =>
    LET expression == raw(WrappedText(last.type) \o " - "
                            \o amount_text(last.n))
        columns    == array_merge(<<<<last.type, expression>>>>, last.vals)
    IN /\ sent.op = "update"
       /\ sent.sql = compile_update(builder, columns)
       /\ sent.bindings
            = clean_bindings_expression(
                prepare_bindings_forupdate(builder.bindings_,
                                           record_values(last.vals)))
       /\ builder = prev

====
